---- MODULE Spec2Model ----
(***************************************************************************)
(* Email enricher (src/email_enricher.py): the run over the leads of the   *)
(* sheet, the MX lookup with its cache, and candidate verification by SMTP *)
(* RCPT TO probing.  The SMTP servers and the DNS are the environment:     *)
(* every socket operation ends with a reply code or with a fault, chosen   *)
(* nondeterministically.  A text that the code takes apart (names, cells)  *)
(* is a sequence of characters.                                            *)
(* Lead scraper (src/lead_scraper_v2.py): the run of main over the rows of *)
(* the sheet under the caps of the SafetyGovernor, with process_row; the   *)
(* browser, the sheet and the usage file are the environment.              *)
(***************************************************************************)
EXTENDS Integers, Sequences, FiniteSets, TLC

\* ------------------------------------------------------------------ bounds
MaxCands == 3
MaxHosts == 2
MaxCalls == 3
MaxRows  == 7
MaxNameLen == 2
MaxLabels == 3
MaxWorkers == 2
MaxLimit == 2
MaxProfiles == 5

\* --------------------------------------------------------------- universe
\* Candidate addresses local@domain, in generation order; choose_best reads
\* nothing of an address but the part after the '@'.
CandPool ==
  << [local |-> << "j", "a", "n", "e" >>,
      domain |-> "acme.io"],
     [local |-> << "j", "a", "n", "e", ".", "d", "o", "e" >>,
      domain |-> "acme.io"],
     [local |-> << "j", "d", "o", "e" >>,
      domain |-> "acme.io"],
     [local |-> << "j", "a", "n", "e", "d", "o", "e" >>,
      domain |-> "acme.io"],
     [local |-> << "j", "a", "n", "e", "_", "d", "o", "e" >>,
      domain |-> "acme.io"],
     [local |-> << "j", "a", "n", "e", "-", "d", "o", "e" >>,
      domain |-> "acme.io"] >>

\* Mail-exchange hostnames, in alphabetical order.
HostPool == << "mx1.acme.io", "mx2.acme.io", "mx3.acme.io", "mx4.acme.io",
              "mx5.acme.io" >>

Min(a, b) == IF a < b THEN a ELSE b

CandidateLists == { SubSeq(CandPool, 1, k) : k \in 0..Min(MaxCands, Len(CandPool)) }
HostLists      == { SubSeq(HostPool, 1, k) : k \in 0..Min(MaxHosts, Len(HostPool)) }

\* ---------------------------------------------------------- sheet contents
Lowercase == << "a", "b", "c", "d", "e", "f", "g", "h", "i", "j", "k", "l", "m",
               "n", "o", "p", "q", "r", "s", "t", "u", "v", "w", "x", "y", "z" >>
Uppercase == << "A", "B", "C", "D", "E", "F", "G", "H", "I", "J", "K", "L", "M",
               "N", "O", "P", "Q", "R", "S", "T", "U", "V", "W", "X", "Y", "Z" >>
Whitespace == { " ", "\t" }

\* None, where the code has it in the place of a string.
None == "<None>"

\* A URL cell, cut where tldextract cuts it: surrounding white space, the
\* scheme with its "://", the labels of the host name, and the rest.
NoWebsite == [pad |-> FALSE, scheme |-> "", labels |-> << >>, rest |-> ""]

\* The leads of the sheet, in row order.
LeadPool ==
  << [status |-> << "N", "E", "W" >>,
      first |-> << "B", "o", "b" >>, last |-> << "L", "e", "e" >>, email |-> << >>,
      website |-> [pad |-> FALSE, scheme |-> "", labels |-> << "acme", "io" >>,
                   rest |-> ""]],
     [status |-> << "S", "C", "R", "A", "P", "E", "D" >>,
      first |-> << "B", "o" >>, last |-> << >>,
      email |-> << "b", "o", "@", "a", "c", "m", "e", ".", "i", "o" >>,
      website |-> [pad |-> FALSE, scheme |-> "", labels |-> << "acme", "io" >>,
                   rest |-> ""]],
     [status |-> << "S", "C", "R", "A", "P", "E", "D" >>,
      first |-> << "C", "y" >>, last |-> << >>, email |-> << >>,
      website |-> [pad |-> FALSE, scheme |-> "https://",
                   labels |-> << "www", "LinkedIn", "com" >>,
                   rest |-> "/company/acme"]],
     [status |-> << "S", "C", "R", "A", "P", "E", "D" >>,
      first |-> << "4", "2" >>, last |-> << >>, email |-> << >>,
      website |-> [pad |-> FALSE, scheme |-> "", labels |-> << "acme", "io" >>,
                   rest |-> ""]],
     [status |-> << "S", "C", "R", "A", "P", "E", "D" >>,
      first |-> << "D", "i" >>, last |-> << >>, email |-> << >>,
      website |-> [pad |-> TRUE, scheme |-> "", labels |-> << >>, rest |-> ""]],
     [status |-> << "S", "C", "R", "A", "P", "E", "D" >>,
      first |-> << "J", "a", "n", "e" >>, last |-> << >>, email |-> << >>,
      website |-> [pad |-> TRUE, scheme |-> "https://",
                   labels |-> << "www", "Acme", "io" >>, rest |-> "/about"]],
     [status |-> << " ", "s", "c", "r", "a", "p", "e", "d", "\t" >>,
      first |-> << >>, last |-> << "O", "'", "N", "e", "i", "l" >>,
      email |-> << " " >>,
      website |-> [pad |-> FALSE, scheme |-> "", labels |-> << "ACME", "IO" >>,
                   rest |-> ""]],
     [status |-> << >>,
      first |-> << "A", "l" >>, last |-> << >>, email |-> << >>,
      website |-> [pad |-> FALSE, scheme |-> "HTTP://",
                   labels |-> << "acme", "io" >>, rest |-> ""]] >>

\* Characters of names: lowercase and uppercase letters, and one that is no
\* letter.
NameChars == { "a", "b", "J", "'" }

\* The texts generate_candidates is given as first and last name.
Names == UNION { [1..n -> NameChars] : n \in 0..MaxNameLen }

\* The texts normalize_domain is given: a host name of up to MaxLabels labels,
\* bare or with a scheme, a path and white space around it.
Labels   == { "www", "Acme", "LinkedIn", "linkedin", "x", "COM", "com", "co", "uk" }
Schemes  == { "", "http://", "HTTPS://" }
Websites ==
  [pad : BOOLEAN, scheme : Schemes,
   labels : UNION { [1..n -> Labels] : n \in 0..MaxLabels },
   rest : { "", "/about" }]

\* Exceptions of tldextract.extract.
ExtractFaults == { "ValueError", "OSError" }

LeadLists == { SubSeq(LeadPool, 1, k) : k \in 0..Min(MaxRows, Len(LeadPool)) }

\* Header rows of the sheet.
Layouts ==
  { << "First Name", "Last Name", "Website", "Email", "Status", "Email Status" >>,
    << "FirstName", "LastName", "Company Website", "Email", "Status",
       "email_status" >>,
    << "First Name", "Last Name", "Website", "Email" >> }

\* The record sheet.get_all_records() gives for a lead under a header row:
\* a dictionary from the header texts to the cells.
RowOf(layout, lead) ==
  [h \in { layout[j] : j \in 1..Len(layout) } |->
     CASE h \in { "First Name", "FirstName" } -> lead.first
       [] h \in { "Last Name", "LastName" }   -> lead.last
       [] h \in { "Website", "Company Website" } -> lead.website
       [] h = "Email"  -> lead.email
       [] h = "Status" -> lead.status
       [] OTHER        -> << >>]

\* Reply codes a server may give: a 2xx, a 3xx, a 4xx, a 5xx, and -1, which
\* is what smtplib reports for a reply line whose code does not parse.
ReplyCodes == { -1, 250, 354, 451, 550 }

\* Exceptions the socket operations raise.
ConnectFaults == { "SMTPConnectError", "socket.timeout", "OSError" }
HeloFaults    == { "SMTPHeloError", "SMTPServerDisconnected" }
TlsFaults     == { "SMTPNotSupportedError", "ssl.SSLError" }
CmdFaults     == { "SMTPServerDisconnected", "socket.timeout", "UnicodeError" }
Exceptions    == ConnectFaults \cup HeloFaults \cup TlsFaults \cup CmdFaults

\* Domains get_mx_hosts is called for.
Domains == { "acme.io", "beta.org" }

\* An MX answer is a non-empty set of records (preference, exchange) that
\* name different exchanges; the text of an exchange, str(r.exchange), is the
\* hostname followed by the dot of the root.
MxPrefs   == { 10, 20 }
Exchanges == { << HostPool[j], "." >> : j \in 1..Min(MaxHosts, Len(HostPool)) }
MxRecords == [preference : MxPrefs, exchange : Exchanges]
MxAnswers == { A \in SUBSET MxRecords :
                 /\ A # {}
                 /\ \A r1, r2 \in A : r1.exchange = r2.exchange => r1 = r2 }

\* Exceptions of dns.resolver.resolve and of socket.gethostbyname.
ResolveFaults == { "NXDOMAIN", "NoAnswer", "LifetimeTimeout", "FormError" }
LookupFaults  == { "socket.gaierror", "UnicodeError" }
DnsExceptions == ResolveFaults \cup LookupFaults

NoLookup == [mx |-> FALSE, answers |-> {}, a |-> "none", exc |-> ""]

NoConn   == [host |-> "", kind |-> "none", rcpt |-> "", cmds |-> << >>,
             refused |-> FALSE, tls_failed |-> FALSE, open |-> FALSE]
NoRet    == [status |-> "", detail |-> ""]
NoResult == [email |-> "", status |-> ""]
\* No other thread is running.
Workers   == 1..MaxWorkers
NoWorker  == [pc |-> "idle", domain |-> "", hosts |-> << >>, stored |-> FALSE]
NoWorkers == [w \in Workers |-> NoWorker]
NoFault  == [step |-> "", kind |-> "", exc |-> ""]

VARIABLES
  candidates,  \* choose_best's argument
  mx_hosts,    \* choose_best's and smtp_rcpt_check's argument
  pc,          \* position in the code
  ci,          \* index of the candidate the for loop of choose_best is at
  hi,          \* index of the host the for loop of smtp_rcpt_check is at
  kind,        \* "primary": lines 221-233, "control": lines 238-247
  conn,        \* the connection `server` is bound to (NoConn at line 218,
               \* where the last connection is read no more); its field
               \* `refused` tells that the host answered MAIL FROM with a
               \* code of 400 or more, `tls_failed` that the inner try of
               \* lines 223-227 (240-244) caught an exception
  code,        \* `code`: the reply code of MAIL FROM, then of RCPT TO for the
               \* candidate (0: unbound, or read no more)
  code_fake,   \* `code_fake`: reply code of RCPT TO for the fake address
               \* (0: unbound)
  ret,         \* value returned by smtp_rcpt_check
  result,      \* value returned by choose_best
  outcomes,    \* history: the status smtp_rcpt_check returned, per candidate
  contacted,   \* history: the candidates a connection was attempted for
  rejected,    \* history: the candidates some host answered 5xx to RCPT TO for
  conns,       \* history, current probe: connection attempts <<host, kind>>
  probeLog,    \* history, current probe: RCPT TO replies
               \* <<host, kind, recipient, class>>
  delays,      \* history, current probe: number of smart_delay calls
  sinceDelay,  \* history: connection attempts since the last smart_delay
  lastFault,   \* history: the exception the last step raised, and where
  escaped,     \* the exception that left choose_best, "" if none
  domain,      \* get_mx_hosts's argument
  mx_cache,    \* `_mx_cache`: a function from the cached domains to host lists
  mx_ret,      \* value returned by get_mx_hosts
  calls,       \* number of get_mx_hosts calls made
  netIO,       \* history: per domain, the MX queries and address lookups sent
  lookup,      \* history, current call: what the DNS answered
  returned,    \* history: per domain, the lists get_mx_hosts returned
  SHEET_NAME,   \* configuration: YOUR_SHEET_NAME
  SMTP_ENABLED, \* configuration: ENRICH_SMTP_ENABLED
  headers,     \* row 1 of the sheet
  rows,        \* `rows`: the records of the sheet (line 295)
  i,           \* number of rows the loop of main has taken; the `i` of
               \* line 316 is one less while a row is worked on
  row_number,  \* `row_number`
  processed,   \* `processed`
  updates,     \* history: the calls of update_sheet
  writes,      \* history: the calls of sheet.update_cell <<row, col, value>>
  input,       \* the arguments of a call of generate_candidates or of
               \* normalize_domain by itself
  output,      \* the value that call returned
  workers,     \* threads that call get_mx_hosts at the same time: per
               \* thread its position in get_mx_hosts, its `domain`, its
               \* `hosts` and whether it has stored into _mx_cache
  SCRAPE_COMPANY_ABOUT,     \* lead_scraper_v2, configuration
  MAX_PROFILES_PER_DAY,     \* lead_scraper_v2, configuration
  MAX_PROFILES_PER_SESSION, \* lead_scraper_v2, configuration
  session_limit, \* SafetyGovernor.session_limit
  daily_limit,   \* SafetyGovernor.daily_limit
  session_count, \* SafetyGovernor.session_count
  daily_count,   \* SafetyGovernor.daily_count
  usage_state,   \* the file usage_state.json: NoFile or its date and count
  sheet_status,  \* the Status cells of the sheet, per record
  driver,        \* the browser: "none", "open" or "quit"
  failed,        \* `failed` of lead_scraper_v2.main
  ok,            \* the value process_row returned
  exc,           \* the message of the exception process_row raised, "" if none
  person,        \* `person` of process_row
  company,       \* `company` of process_row
  page,          \* the page the browser shows: the row it was loaded for
                 \* (0 for login), its kind, and whether it carries a
                 \* risk marker
  detected       \* history: detect_risk has returned True

args  == << candidates, mx_hosts >>
hist  == << outcomes, contacted, rejected, conns, probeLog, delays, sinceDelay >>
probeVars == << candidates, mx_hosts, ci, hi, kind, conn, code, code_fake, ret,
               result, outcomes, contacted, rejected, conns, probeLog, delays,
               sinceDelay, lastFault, escaped >>
mxVars == << domain, mx_cache, mx_ret, calls, netIO, lookup, returned >>
mainVars == << SHEET_NAME, SMTP_ENABLED, headers, rows, i, row_number, processed,
              updates, writes >>
scraperVars == << SCRAPE_COMPANY_ABOUT, MAX_PROFILES_PER_DAY,
                 MAX_PROFILES_PER_SESSION, session_limit, daily_limit, session_count,
                 daily_count, usage_state, sheet_status, driver, failed, ok, exc,
                 person, company, page, detected >>
callVars == << input, output, workers, scraperVars >>
vars   == << pc, probeVars, mxVars, mainVars, callVars >>

\* ------------------------------------------------------------- helpers
Range(s) == { s[j] : j \in 1..Len(s) }

Class(c) == IF 200 <= c /\ c < 300 THEN "2xx"
            ELSE IF 500 <= c /\ c < 600 THEN "5xx" ELSE "other"

email == candidates[ci]
host  == mx_hosts[hi]

\* Mutant: a sender address of the prober.
from_address_Mailbox == "verify@localhost"

\* line 217
from_address == "<>"

\* line 236: noone-<ms timestamp>@<the part of email after '@'>
fake == [local |-> << "n", "o", "o", "n", "e", "-", "1", "7", "6", "2", "1", "6", "0", "0", "0", "0", "0", "0", "0" >>,
         domain |-> email.domain]

Sent(cmd) == [conn EXCEPT !.cmds = Append(@, cmd)]

\* Mutant: a refused MAIL FROM is followed by RCPT TO all the same (the test
\* of line 229 left out).
MailRejected_Never(c) == FALSE

\* line 229
MailRejected(c) == c >= 400

\* Mutant: every reply that is not a 5xx is taken for an accept.
PrimaryVerdict_Not5xxAccepts(c) ==
  IF 500 <= c /\ c < 600 THEN "UNDELIVERABLE" ELSE "control"

\* lines 234, 254, 256: what follows the reply to RCPT TO for the candidate
PrimaryVerdict(c) ==
  IF 200 <= c /\ c < 300 THEN "control"
  ELSE IF 500 <= c /\ c < 600 THEN "UNDELIVERABLE"
  ELSE "continue"

\* Mutant: the two verdicts of lines 248-251 swapped.
ControlVerdict_Swapped(c) ==
  IF 200 <= c /\ c < 300 THEN "DELIVERABLE" ELSE "CATCH_ALL"

\* lines 248-251
ControlVerdict(c) == IF 200 <= c /\ c < 300 THEN "CATCH_ALL" ELSE "DELIVERABLE"

\* Mutant: the CATCH_ALL test of lines 271-272 left out.
ChooseBestStops_OnlyDeliverable(status) == status = "DELIVERABLE"

\* Mutant: a rejection ends the loop too, and is returned.
ChooseBestStops_AlsoRejected(status) == status # "MX_UNVERIFIABLE"

\* lines 269-275: the statuses that end choose_best's loop
ChooseBestStops(status) == status = "DELIVERABLE" \/ status = "CATCH_ALL"

\* Mutant: the last candidate (candidates[-1]) instead of the first.
ExhaustedResult_Last(cands) ==
  [email |-> IF Len(cands) > 0 THEN cands[Len(cands)] ELSE "",
   status |-> "MX_UNVERIFIABLE"]

\* line 276
ExhaustedResult(cands) ==
  [email |-> IF Len(cands) > 0 THEN cands[1] ELSE "", status |-> "MX_UNVERIFIABLE"]

\* The except clauses.  line 259 names socket.timeout, SMTPConnectError,
\* SMTPServerDisconnected, SMTPHeloError, SMTPDataError, SMTPRecipientsRefused
\* and OSError: OuterNamed are the exceptions above that are instances of one
\* of them.  line 261 catches every other Exception.  Both clauses `continue`.
OuterNamed == { "socket.timeout", "SMTPConnectError", "SMTPServerDisconnected",
                "SMTPHeloError", "OSError", "ssl.SSLError",
                "SMTPNotSupportedError" }
\* Mutant: the clause of line 261 (except Exception) left out.
OuterExcept_NamedOnly(f) == IF f \in OuterNamed THEN "continue" ELSE "propagate"

OuterExcept(f) ==
  IF f \in OuterNamed THEN "continue"
  ELSE IF f \in Exceptions THEN "continue"
  ELSE "propagate"
\* Mutant: no inner try; a fault of the STARTTLS block is left to the
\* enclosing clauses.
TlsExcept_Absent(f) == "propagate"

\* lines 226-227 and 243-244
TlsExcept(f) == IF f \in Exceptions THEN "pass" ELSE "propagate"
\* Mutant: a fault of the negative-control connection is left to the clauses
\* of lines 259-262.
ControlExcept_Continue(f) == IF f \in Exceptions THEN "continue" ELSE "propagate"

\* lines 252-253
ControlExcept(f) == IF f \in Exceptions THEN "return_deliverable" ELSE "propagate"

\* The innermost enclosing handler that catches f.
Handler(f) ==
  IF kind = "control" /\ ControlExcept(f) # "propagate" THEN ControlExcept(f)
  ELSE OuterExcept(f)

\* What a fault f raised inside the try blocks at the current position does;
\* c is the connection as the fault leaves it.
Raise(f, c) ==
  /\ conn' = c
  /\ lastFault' = [step |-> pc, kind |-> kind, exc |-> f]
  /\ CASE Handler(f) = "continue" ->
            /\ pc' = "rc_for"
            /\ UNCHANGED << ret, escaped >>
       [] Handler(f) = "return_deliverable" ->
            /\ ret' = [status |-> "DELIVERABLE", detail |-> host]
            /\ pc' = "cb_if"
            /\ UNCHANGED escaped
       [] OTHER ->
            /\ pc' = "raised"
            /\ escaped' = f
            /\ UNCHANGED ret

\* A step that raises nothing.
NoRaise == lastFault' = NoFault /\ UNCHANGED escaped

\* ----------------------------------------------------------------- Init
InitProbe ==
  /\ ci = 0 /\ hi = 0 /\ kind = "primary"
  /\ conn = NoConn
  /\ code = 0 /\ code_fake = 0
  /\ ret = NoRet /\ result = NoResult
  /\ outcomes = << >> /\ contacted = {} /\ rejected = {}
  /\ conns = << >> /\ probeLog = << >> /\ delays = 0 /\ sinceDelay = 0
  /\ lastFault = NoFault
  /\ escaped = ""

\* line 183: the cache is empty when the module is loaded
InitMx ==
  /\ domain = ""
  /\ mx_cache = << >>
  /\ mx_ret = << >>
  /\ calls = 0
  /\ netIO = [d \in Domains |-> [mx |-> 0, a |-> 0]]
  /\ lookup = NoLookup
  /\ returned = [d \in Domains |-> << >>]

\* main is not running
\* ----------------------------------------------- lead_scraper_v2: no run
NoFile    == [date |-> "", count |-> 0]
NoPerson  == [first_name |-> "", last_name |-> "", title |-> "",
              company_name |-> "", company_linkedin_url |-> ""]
NoCompany == [website |-> "", industry |-> "", description |-> ""]
NoPage    == [row |-> 0, kind |-> "none", risk |-> FALSE]

InitNoScraper ==
  /\ SCRAPE_COMPANY_ABOUT = TRUE
  /\ MAX_PROFILES_PER_DAY = 1 /\ MAX_PROFILES_PER_SESSION = 1
  /\ session_limit = 1 /\ daily_limit = 1
  /\ session_count = 0 /\ daily_count = 0
  /\ usage_state = NoFile
  /\ sheet_status = << >>
  /\ driver = "none"
  /\ failed = 0 /\ ok = FALSE /\ exc = ""
  /\ person = NoPerson /\ company = NoCompany
  /\ page = NoPage
  /\ detected = FALSE

InitNoMain ==
  /\ input = << >> /\ output = << >>
  /\ workers = NoWorkers
  /\ InitNoScraper
  /\ SHEET_NAME = "" /\ SMTP_ENABLED = TRUE
  /\ headers = << >> /\ rows = << >>
  /\ i = 0 /\ row_number = 0 /\ processed = 0
  /\ updates = << >> /\ writes = << >>

Init ==
  /\ candidates \in CandidateLists
  /\ mx_hosts \in HostLists
  /\ pc = "cb_for"
  /\ InitProbe
  /\ InitMx
  /\ InitNoMain

\* ------------------------------------------------------------ choose_best
\* lines 267-268: the next candidate, and the call of smtp_rcpt_check
ChooseBestFor ==
  /\ pc = "cb_for"
  /\ ci < Len(candidates)
  /\ ci' = ci + 1
  /\ pc' = "rc_if"
  /\ conns' = << >> /\ probeLog' = << >> /\ delays' = 0
  /\ NoRaise
  /\ UNCHANGED << callVars, mainVars, mxVars, args, hi, kind, conn, code, code_fake, ret, result, outcomes,
                  contacted, rejected, sinceDelay >>

\* line 276: the loop is exhausted
ChooseBestExhausted ==
  /\ pc = "cb_for"
  /\ ci >= Len(candidates)
  /\ result' = ExhaustedResult(candidates)
  /\ pc' = "cb_done"
  /\ NoRaise
  /\ UNCHANGED << callVars, mainVars, mxVars, args, ci, hi, kind, conn, code, code_fake, ret, hist >>

\* Mutant: the host loop of the next candidate resumes where this one stopped.
ChooseBestIf_KeepsHost ==
  /\ pc = "cb_if"
  /\ outcomes' = Append(outcomes, ret.status)
  /\ conn' = NoConn /\ code' = 0 /\ code_fake' = 0 /\ kind' = "primary"
  /\ IF ChooseBestStops(ret.status)
       THEN /\ result' = [email |-> email, status |-> ret.status]
            /\ pc' = "cb_done"
       ELSE /\ pc' = "cb_for"
            /\ UNCHANGED result
  /\ NoRaise
  /\ UNCHANGED << callVars, mainVars, mxVars, args, ci, hi, ret, contacted, rejected, conns, probeLog, delays,
                  sinceDelay >>

\* lines 268-275: smtp_rcpt_check has returned (its locals are gone), and what
\* choose_best does with the value
ChooseBestIf ==
  /\ pc = "cb_if"
  /\ outcomes' = Append(outcomes, ret.status)
  /\ conn' = NoConn /\ code' = 0 /\ code_fake' = 0 /\ hi' = 0 /\ kind' = "primary"
  /\ IF ChooseBestStops(ret.status)
       THEN /\ result' = [email |-> email, status |-> ret.status]
            /\ pc' = "cb_done"
       ELSE /\ pc' = "cb_for"
            /\ UNCHANGED result
  /\ NoRaise
  /\ UNCHANGED << callVars, mainVars, mxVars, args, ci, ret, contacted, rejected, conns, probeLog, delays,
                  sinceDelay >>

\* -------------------------------------------------------- smtp_rcpt_check
\* line 139
smart_delay ==
  /\ delays' = delays + 1
  /\ sinceDelay' = 0

\* Mutant: the delay taken on entry, before the test of line 214.
SmtpRcptCheckIf_DelayFirst ==
  /\ pc = "rc_if"
  /\ smart_delay
  /\ IF Len(mx_hosts) = 0
       THEN /\ ret' = [status |-> "MX_UNVERIFIABLE", detail |-> "no_mx"]
            /\ pc' = "cb_if"
       ELSE /\ pc' = "rc_for"
            /\ UNCHANGED ret
  /\ lastFault' = NoFault
  /\ UNCHANGED << callVars, mainVars, mxVars, args, ci, hi, kind, conn, code, code_fake, result, outcomes,
                  contacted, rejected, conns, probeLog, escaped >>

\* lines 214-217
SmtpRcptCheckIf ==
  /\ pc = "rc_if"
  /\ IF Len(mx_hosts) = 0
       THEN /\ ret' = [status |-> "MX_UNVERIFIABLE", detail |-> "no_mx"]
            /\ pc' = "cb_if"
       ELSE /\ pc' = "rc_for"
            /\ UNCHANGED ret
  /\ NoRaise
  /\ UNCHANGED << callVars, mainVars, mxVars, args, ci, hi, kind, conn, code, code_fake, result, hist >>

\* lines 218-219: the next host, after a delay
SmtpRcptCheckFor ==
  /\ pc = "rc_for"
  /\ hi < Len(mx_hosts)
  /\ hi' = hi + 1
  /\ smart_delay
  /\ conn' = NoConn /\ code' = 0
  /\ pc' = "connect"
  /\ NoRaise
  /\ UNCHANGED << callVars, mainVars, mxVars, args, ci, kind, code_fake, ret, result, outcomes, contacted,
                  rejected, conns, probeLog >>

\* Mutant: when every host was tried the loop starts over with the first host.
SmtpRcptCheckAllFailed_Retries ==
  /\ pc = "rc_for"
  /\ hi >= Len(mx_hosts)
  /\ hi' = 0
  /\ pc' = "rc_for"
  /\ NoRaise
  /\ UNCHANGED << callVars, mainVars, mxVars, args, ci, kind, conn, code, code_fake, ret, result, hist >>

\* line 263: every host was tried
SmtpRcptCheckAllFailed ==
  /\ pc = "rc_for"
  /\ hi >= Len(mx_hosts)
  /\ ret' = [status |-> "MX_UNVERIFIABLE", detail |-> "all_failed"]
  /\ pc' = "cb_if"
  /\ NoRaise
  /\ UNCHANGED << callVars, mainVars, mxVars, args, ci, hi, kind, conn, code, code_fake, result, hist >>

\* lines 221 and 238: smtplib.SMTP(host, 25, timeout) connects and reads the
\* greeting
Connect ==
  /\ pc = "connect"
  /\ conns' = Append(conns, << hi, kind >>)
  /\ contacted' = contacted \cup { ci }
  /\ sinceDelay' = sinceDelay + 1
  /\ \/ /\ conn' = [host |-> host, kind |-> kind,
                    rcpt |-> IF kind = "primary" THEN email ELSE fake,
                    cmds |-> << >>, refused |-> FALSE, tls_failed |-> FALSE,
                    open |-> TRUE]
        /\ pc' = "ehlo"
        /\ NoRaise /\ UNCHANGED ret
     \/ \E f \in ConnectFaults : Raise(f, conn)
  /\ UNCHANGED << callVars, mainVars, mxVars, args, ci, hi, kind, code, code_fake, result, outcomes, rejected,
                  probeLog, delays >>

\* lines 222 and 239: server.ehlo_or_helo_if_needed()
Ehlo ==
  /\ pc = "ehlo"
  /\ \/ /\ conn' = Sent(<< "EHLO" >>)
        /\ pc' = "starttls"
        /\ NoRaise /\ UNCHANGED ret
     \/ \E f \in HeloFaults : Raise(f, Sent(<< "EHLO" >>))
  /\ UNCHANGED << callVars, mainVars, mxVars, args, ci, hi, kind, code, code_fake, result, hist >>

\* lines 223-227 and 240-244: the inner try, server.starttls(...); smtplib
\* raises SMTPNotSupportedError, sending nothing, when the server did not
\* offer STARTTLS
StartTls ==
  /\ pc = "starttls"
  /\ \/ /\ conn' = Sent(<< "STARTTLS" >>)
        /\ pc' = "tls_ehlo"
        /\ NoRaise /\ UNCHANGED ret
     \/ \E f \in TlsFaults :
          LET c == IF f = "SMTPNotSupportedError" THEN conn ELSE Sent(<< "STARTTLS" >>)
          IN  IF TlsExcept(f) = "pass"
                THEN /\ conn' = [c EXCEPT !.tls_failed = TRUE]
                     /\ lastFault' = [step |-> pc, kind |-> kind, exc |-> f]
                     /\ pc' = "mail"
                     /\ UNCHANGED << ret, escaped >>
                ELSE Raise(f, c)
  /\ UNCHANGED << callVars, mainVars, mxVars, args, ci, hi, kind, code, code_fake, result, hist >>

\* lines 225-227 and 242-244: the inner try, server.ehlo()
TlsEhlo ==
  /\ pc = "tls_ehlo"
  /\ \/ /\ conn' = Sent(<< "EHLO" >>)
        /\ pc' = "mail"
        /\ NoRaise /\ UNCHANGED ret
     \/ \E f \in HeloFaults :
          IF TlsExcept(f) = "pass"
            THEN /\ conn' = [Sent(<< "EHLO" >>) EXCEPT !.tls_failed = TRUE]
                 /\ lastFault' = [step |-> pc, kind |-> kind, exc |-> f]
                 /\ pc' = "mail"
                 /\ UNCHANGED << ret, escaped >>
            ELSE Raise(f, Sent(<< "EHLO" >>))
  /\ UNCHANGED << callVars, mainVars, mxVars, args, ci, hi, kind, code, code_fake, result, hist >>

\* lines 228-231 and 245: server.mail(from_address); the control probe drops
\* the reply
Mail ==
  /\ pc = "mail"
  /\ \/ \E c \in ReplyCodes :
          /\ conn' = [Sent(<< "MAIL", from_address >>) EXCEPT !.refused = (c >= 400)]
          /\ IF kind = "primary"
               THEN /\ code' = c
                    /\ pc' = IF MailRejected(c) THEN "quit_mail" ELSE "rcpt"
               ELSE /\ pc' = "rcpt"
                    /\ UNCHANGED code
          /\ NoRaise /\ UNCHANGED ret
     \/ /\ \E f \in CmdFaults : Raise(f, Sent(<< "MAIL", from_address >>))
        /\ UNCHANGED code
  /\ UNCHANGED << callVars, mainVars, mxVars, args, ci, hi, kind, code_fake, result, hist >>

\* lines 230-231: server.quit(); continue
QuitMail ==
  /\ pc = "quit_mail"
  /\ \/ /\ conn' = [Sent(<< "QUIT" >>) EXCEPT !.open = FALSE]
        /\ pc' = "rc_for"
        /\ NoRaise /\ UNCHANGED ret
     \/ \E f \in CmdFaults : Raise(f, Sent(<< "QUIT" >>))
  /\ UNCHANGED << callVars, mainVars, mxVars, args, ci, hi, kind, code, code_fake, result, hist >>

\* Mutant: the fake address is tried on the connection of the candidate.
Rcpt_BothOnOneConnection ==
  /\ pc = "rcpt"
  /\ \/ \E c \in ReplyCodes :
          /\ conn' = [conn EXCEPT !.cmds = @ \o << << "RCPT", conn.rcpt >>,
                                                  << "RCPT", fake >> >>]
          /\ IF kind = "primary"
               THEN code' = c /\ UNCHANGED code_fake
               ELSE code_fake' = c /\ UNCHANGED code
          /\ rejected' = IF kind = "primary" /\ Class(c) = "5xx"
                           THEN rejected \cup { ci } ELSE rejected
          /\ probeLog' = Append(probeLog, << hi, kind, conn.rcpt, Class(c) >>)
          /\ pc' = "quit"
          /\ NoRaise /\ UNCHANGED ret
     \/ /\ \E f \in CmdFaults : Raise(f, Sent(<< "RCPT", conn.rcpt >>))
        /\ UNCHANGED << code, code_fake, rejected, probeLog >>
  /\ UNCHANGED << callVars, mainVars, mxVars, args, ci, hi, kind, result, outcomes, contacted, conns, delays,
                  sinceDelay >>

\* lines 232 and 246: server.rcpt(email), server.rcpt(fake)
Rcpt ==
  /\ pc = "rcpt"
  /\ \/ \E c \in ReplyCodes :
          /\ conn' = Sent(<< "RCPT", conn.rcpt >>)
          /\ IF kind = "primary"
               THEN code' = c /\ UNCHANGED code_fake
               ELSE code_fake' = c /\ UNCHANGED code
          /\ rejected' = IF kind = "primary" /\ Class(c) = "5xx"
                           THEN rejected \cup { ci } ELSE rejected
          /\ probeLog' = Append(probeLog, << hi, kind, conn.rcpt, Class(c) >>)
          /\ pc' = "quit"
          /\ NoRaise /\ UNCHANGED ret
     \/ /\ \E f \in CmdFaults : Raise(f, Sent(<< "RCPT", conn.rcpt >>))
        /\ UNCHANGED << code, code_fake, rejected, probeLog >>
  /\ UNCHANGED << callVars, mainVars, mxVars, args, ci, hi, kind, result, outcomes, contacted, conns, delays,
                  sinceDelay >>

\* lines 233-258 and 247-251: server.quit(), then the classification of the
\* RCPT TO reply
Quit ==
  /\ pc = "quit"
  /\ \/ /\ conn' = [Sent(<< "QUIT" >>) EXCEPT !.open = FALSE]
        /\ NoRaise
        /\ IF kind = "primary"
             THEN CASE PrimaryVerdict(code) = "control" ->
                         /\ kind' = "control"
                         /\ pc' = "connect"
                         /\ UNCHANGED ret
                    [] PrimaryVerdict(code) = "UNDELIVERABLE" ->
                         /\ ret' = [status |-> "UNDELIVERABLE", detail |-> host]
                         /\ pc' = "cb_if"
                         /\ UNCHANGED kind
                    [] OTHER ->
                         /\ pc' = "rc_for"
                         /\ UNCHANGED << ret, kind >>
             ELSE /\ ret' = [status |-> ControlVerdict(code_fake), detail |-> host]
                  /\ pc' = "cb_if"
                  /\ UNCHANGED kind
     \/ /\ \E f \in CmdFaults : Raise(f, Sent(<< "QUIT" >>))
        /\ UNCHANGED kind
  /\ UNCHANGED << callVars, mainVars, mxVars, args, ci, hi, code, code_fake, result, hist >>

\* ----------------------------------------------------------------- Next
NextProbe ==
  \/ ChooseBestFor
  \/ ChooseBestExhausted
  \/ ChooseBestIf
  \/ SmtpRcptCheckIf
  \/ SmtpRcptCheckFor
  \/ SmtpRcptCheckAllFailed
  \/ Connect
  \/ Ehlo
  \/ StartTls
  \/ TlsEhlo
  \/ Mail
  \/ QuitMail
  \/ Rcpt
  \/ Quit

Next == NextProbe

Spec == Init /\ [][Next]_vars

\* ------------------------------------------------------------ get_mx_hosts
\* Position of a hostname in alphabetical order.
Rank(h) == CHOOSE j \in 1..Len(HostPool) : HostPool[j] = h

\* str.rstrip('.') on the text of an exchange
RStripDot(t) ==
  LET keep == { n \in 0..Len(t) : \A j \in (n + 1)..Len(t) : t[j] = "." }
      n    == CHOOSE m \in keep : \A k \in keep : m <= k
  IN  SubSeq(t, 1, n)

\* The hostname left of an exchange text ("" when nothing is left).
HostText(t) == IF Len(RStripDot(t)) = 0 THEN "" ELSE RStripDot(t)[1]

\* sorted(names, key=lambda h: h) over the records R of an answer
RECURSIVE SortedNames(_)
SortedNames(R) ==
  IF R = {} THEN << >>
  ELSE LET r == CHOOSE x \in R :
                  \A y \in R : Rank(HostText(x.exchange)) <= Rank(HostText(y.exchange))
       IN  << HostText(r.exchange) >> \o SortedNames(R \ { r })

\* line 191
MxHostList(answers) == SortedNames(answers)

\* Mutant: the A-record fallback of lines 197-199 left out.
FallbackList_Never(d, resolves) == << >>

\* lines 197-202: the list when the MX query failed
FallbackList(d, resolves) == IF resolves THEN << d >> ELSE << >>

\* Mutant: `except (NXDOMAIN, NoAnswer):` at line 194.
ResolveExcept_AnswerOnly(f) ==
  IF f \in { "NXDOMAIN", "NoAnswer" } THEN "fallback" ELSE "propagate"

\* line 194: except Exception
ResolveExcept(f) == IF f \in DnsExceptions THEN "fallback" ELSE "propagate"

\* line 200: except Exception
LookupExcept(f) == IF f \in DnsExceptions THEN "empty" ELSE "propagate"

\* Mutant: `if _mx_cache.get(domain):`, which takes a cached empty list for
\* no entry.
CacheHit_NonEmpty(d) == d \in DOMAIN mx_cache /\ mx_cache[d] # << >>

\* line 187
CacheHit(d) == d \in DOMAIN mx_cache

CacheStore(d, hosts) ==
  mx_cache' = [x \in DOMAIN mx_cache \cup { d } |->
                 IF x = d THEN hosts ELSE mx_cache[x]]

ReturnHosts(hosts) ==
  /\ mx_ret' = hosts
  /\ returned' = [returned EXCEPT ![domain] = Append(@, hosts)]
  /\ pc' = "mx_done"

\* A caller (line 342): get_mx_hosts(d)
MxCall ==
  /\ pc \in { "mx_idle", "mx_done" }
  /\ calls < MaxCalls
  /\ \E d \in Domains : domain' = d
  /\ calls' = calls + 1
  /\ lookup' = NoLookup
  /\ pc' = "mx_if"
  /\ UNCHANGED << callVars, mainVars, probeVars, mx_cache, mx_ret, netIO, returned >>

\* lines 187-188
GetMxHostsIf ==
  /\ pc = "mx_if"
  /\ IF CacheHit(domain)
       THEN ReturnHosts(mx_cache[domain])
       ELSE pc' = "mx_resolve" /\ UNCHANGED << mx_ret, returned >>
  /\ UNCHANGED << callVars, mainVars, probeVars, domain, mx_cache, calls, netIO, lookup >>

\* lines 189-194: the MX query
GetMxHostsResolve ==
  /\ pc = "mx_resolve"
  /\ netIO' = [netIO EXCEPT ![domain].mx = @ + 1]
  /\ \/ \E answers \in MxAnswers :
          /\ lookup' = [lookup EXCEPT !.mx = TRUE, !.answers = answers]
          /\ CacheStore(domain, MxHostList(answers))
          /\ ReturnHosts(MxHostList(answers))
     \/ \E f \in ResolveFaults :
          /\ lookup' = [lookup EXCEPT !.mx = TRUE, !.exc = f]
          /\ pc' = IF ResolveExcept(f) = "fallback" THEN "mx_fallback" ELSE "mx_raised"
          /\ UNCHANGED << mx_cache, mx_ret, returned >>
  /\ UNCHANGED << callVars, mainVars, probeVars, domain, calls >>

\* lines 195-202: the address-record lookup
GetMxHostsFallback ==
  /\ pc = "mx_fallback"
  /\ netIO' = [netIO EXCEPT ![domain].a = @ + 1]
  /\ \/ /\ lookup' = [lookup EXCEPT !.a = "ok"]
        /\ CacheStore(domain, FallbackList(domain, TRUE))
        /\ ReturnHosts(FallbackList(domain, TRUE))
     \/ \E f \in LookupFaults :
          /\ lookup' = [lookup EXCEPT !.a = "fail", !.exc = f]
          /\ IF LookupExcept(f) = "empty"
               THEN /\ CacheStore(domain, FallbackList(domain, FALSE))
                    /\ ReturnHosts(FallbackList(domain, FALSE))
               ELSE /\ pc' = "mx_raised"
                    /\ UNCHANGED << mx_cache, mx_ret, returned >>
  /\ UNCHANGED << callVars, mainVars, probeVars, domain, calls >>

InitMxCalls ==
  /\ pc = "mx_idle"
  /\ candidates = << >> /\ mx_hosts = << >>
  /\ InitProbe
  /\ InitMx
  /\ InitNoMain

NextMx ==
  \/ MxCall
  \/ GetMxHostsIf
  \/ GetMxHostsResolve
  \/ GetMxHostsFallback

SpecMx == InitMxCalls /\ [][NextMx]_vars

\* ------------------------------- get_mx_hosts called by several threads
\* The steps of get_mx_hosts (lines 186-202) taken by thread w; the threads
\* share _mx_cache and nothing orders their steps.

\* A thread calls get_mx_hosts(d).
WorkerCall(w) ==
  /\ workers[w].pc = "idle"
  /\ \E d \in Domains : workers' = [workers EXCEPT ![w].pc = "if", ![w].domain = d]
  /\ UNCHANGED << pc, input, output, scraperVars, mainVars, probeVars, mxVars >>

\* What a thread that returns hosts leaves behind.
WorkerReturn(w, hosts) ==
  returned' = [returned EXCEPT ![workers[w].domain] = Append(@, hosts)]

\* lines 187-188
WorkerIf(w) ==
  /\ workers[w].pc = "if"
  /\ IF CacheHit(workers[w].domain)
       THEN /\ workers' = [workers EXCEPT ![w].pc = "done",
                                          ![w].hosts = mx_cache[workers[w].domain]]
            /\ WorkerReturn(w, mx_cache[workers[w].domain])
       ELSE /\ workers' = [workers EXCEPT ![w].pc = "resolve"]
            /\ UNCHANGED returned
  /\ UNCHANGED << pc, input, output, scraperVars, mainVars, probeVars, domain, mx_cache, mx_ret, calls,
                  netIO, lookup >>

\* lines 190-191 and 194: the MX query, and `hosts`
WorkerResolve(w) ==
  /\ workers[w].pc = "resolve"
  /\ netIO' = [netIO EXCEPT ![workers[w].domain].mx = @ + 1]
  /\ \/ \E answers \in MxAnswers :
          workers' = [workers EXCEPT ![w].pc = "store",
                                     ![w].hosts = MxHostList(answers)]
     \/ \E f \in ResolveFaults :
          workers' = [workers EXCEPT ![w].pc =
                        IF ResolveExcept(f) = "fallback" THEN "fallback" ELSE "raised"]
  /\ UNCHANGED << pc, input, output, scraperVars, mainVars, probeVars, domain, mx_cache, mx_ret, calls,
                  lookup, returned >>

\* lines 196-197 and 200: the address-record lookup
WorkerFallback(w) ==
  /\ workers[w].pc = "fallback"
  /\ netIO' = [netIO EXCEPT ![workers[w].domain].a = @ + 1]
  /\ \/ workers' = [workers EXCEPT ![w].pc = "store",
                                    ![w].hosts = FallbackList(workers[w].domain, TRUE)]
     \/ \E f \in LookupFaults :
          workers' = [workers EXCEPT
                        ![w].pc = IF LookupExcept(f) = "empty" THEN "store" ELSE "raised",
                        ![w].hosts = FallbackList(workers[w].domain, FALSE)]
  /\ UNCHANGED << pc, input, output, scraperVars, mainVars, probeVars, domain, mx_cache, mx_ret, calls,
                  lookup, returned >>

\* lines 192-193, 198-199 and 201-202: the store into _mx_cache, and return
WorkerStore(w) ==
  /\ workers[w].pc = "store"
  /\ CacheStore(workers[w].domain, workers[w].hosts)
  /\ workers' = [workers EXCEPT ![w].pc = "done", ![w].stored = TRUE]
  /\ WorkerReturn(w, workers[w].hosts)
  /\ UNCHANGED << pc, input, output, scraperVars, mainVars, probeVars, domain, mx_ret, calls, netIO,
                  lookup >>

InitMxWorkers ==
  /\ pc = "mx_workers"
  /\ candidates = << >> /\ mx_hosts = << >>
  /\ InitProbe
  /\ InitMx
  /\ InitNoMain

NextMxWorkers ==
  \E w \in Workers :
    \/ WorkerCall(w)
    \/ WorkerIf(w)
    \/ WorkerResolve(w)
    \/ WorkerFallback(w)
    \/ WorkerStore(w)

SpecMxWorkers == InitMxWorkers /\ [][NextMxWorkers]_vars

\* ------------------------------------------------------------- str methods
LowerChar(c) ==
  IF \E j \in 1..Len(Uppercase) : Uppercase[j] = c
    THEN Lowercase[CHOOSE j \in 1..Len(Uppercase) : Uppercase[j] = c]
    ELSE c

UpperChar(c) ==
  IF \E j \in 1..Len(Lowercase) : Lowercase[j] = c
    THEN Uppercase[CHOOSE j \in 1..Len(Lowercase) : Lowercase[j] = c]
    ELSE c

\* str.lower, str.upper
lower(t) == [j \in 1..Len(t) |-> LowerChar(t[j])]
upper(t) == [j \in 1..Len(t) |-> UpperChar(t[j])]

\* str.strip
strip(t) ==
  LET inked == { j \in 1..Len(t) : t[j] \notin Whitespace }
  IN  IF inked = {} THEN << >>
      ELSE SubSeq(t, CHOOSE a \in inked : \A b \in inked : a <= b,
                     CHOOSE a \in inked : \A b \in inked : a >= b)

\* re.sub(r"[^a-z]", "", t)
OnlyLowercase(t) == SelectSeq(t, LAMBDA c : \E j \in 1..Len(Lowercase) : Lowercase[j] = c)

\* Mutant: str.lower left out.
LowerWord_AsIs(w) == w

\* str.lower on the text of a header or of a label of a host name
LowerWord(w) ==
  CASE w = "First Name"      -> "first name"
    [] w = "Last Name"       -> "last name"
    [] w = "FirstName"       -> "firstname"
    [] w = "LastName"        -> "lastname"
    [] w = "Website"         -> "website"
    [] w = "Company Website" -> "company website"
    [] w = "Email"           -> "email"
    [] w = "Status"          -> "status"
    [] w = "Email Status"    -> "email status"
    [] w = "HTTP://"         -> "http://"
    [] w = "HTTPS://"        -> "https://"
    [] w = "Acme"            -> "acme"
    [] w = "ACME"            -> "acme"
    [] w = "IO"              -> "io"
    [] w = "COM"             -> "com"
    [] w = "LinkedIn"        -> "linkedin"
    [] w = "LinkedIn URL"    -> "linkedin url"
    [] w = "Profile"         -> "profile"
    [] w = "LinkedInProfile" -> "linkedinprofile"
    [] w = "Profile URL"     -> "profile url"
    [] w = "firstName"       -> "firstname"
    [] w = "lastName"        -> "lastname"
    [] w = "Title"           -> "title"
    [] w = "Company"         -> "company"
    [] w = "Company Name"    -> "company name"
    [] w = "Company URL"     -> "company url"
    [] w = "Company LinkedIn URL" -> "company linkedin url"
    [] w = "Company Linkedin URL" -> "company linkedin url"
    [] w = "Company Profile" -> "company profile"
    [] w = "Industry"        -> "industry"
    [] w = "Company Industry" -> "company industry"
    [] w = "Description"     -> "description"
    [] w = "Company Description" -> "company description"
    [] OTHER                 -> w

\* ---------------------------------------------------------- normalize_domain
\* lines 89-92
SOCIAL_DOMAINS ==
  { "linkedin.com", "facebook.com", "twitter.com", "x.com", "instagram.com",
    "youtube.com", "tiktok.com", "medium.com", "github.com" }

\* The suffixes of the public suffix list that the host names here end in.
PublicSuffixes ==
  { << "io" >>, << "com" >>, << "org" >>, << "co" >>, << "uk" >>, << "co", "uk" >> }

RECURSIVE JoinDots(_)
JoinDots(labels) ==
  IF Len(labels) = 0 THEN ""
  ELSE IF Len(labels) = 1 THEN labels[1]
  ELSE labels[1] \o "." \o JoinDots(Tail(labels))

\* tldextract.extract: the longest public suffix the host name ends in, and
\* the label before it.
tldextract(labels) ==
  LET n    == Len(labels)
      low  == [j \in 1..n |-> LowerWord(labels[j])]
      lens == { k \in 0..n : k = 0 \/ SubSeq(low, n - k + 1, n) \in PublicSuffixes }
      k    == CHOOSE a \in lens : \A b \in lens : a >= b
  IN  [domain |-> IF n - k >= 1 THEN labels[n - k] ELSE "",
       suffix |-> JoinDots(SubSeq(labels, n - k + 1, n)),
       low    |-> [domain |-> IF n - k >= 1 THEN low[n - k] ELSE "",
                   suffix |-> JoinDots(SubSeq(low, n - k + 1, n))]]

\* `not website` for the text of a URL cell
EmptyText(w) == ~w.pad /\ w.scheme = "" /\ w.labels = << >> /\ w.rest = ""

\* str.strip for the text of a URL cell
StripUrl(w) == [w EXCEPT !.pad = FALSE]

\* lines 95-115
normalize_domain(website) ==
  IF EmptyText(website) THEN None
  ELSE IF EmptyText(StripUrl(website)) THEN None
  ELSE LET website_url ==
             IF LowerWord(StripUrl(website).scheme) \in { "http://", "https://" }
               THEN StripUrl(website)
               ELSE [StripUrl(website) EXCEPT !.scheme = "http://" \o @]
           ext == tldextract(website_url.labels)
           dom == IF ext.suffix # "" THEN ext.low.domain \o "." \o ext.low.suffix
                  ELSE ext.low.domain
       IN  IF ext.domain = "" THEN None
           ELSE IF dom \in SOCIAL_DOMAINS THEN None
           ELSE dom

\* lines 114-115: except Exception
ExtractExcept(f) == IF f \in ExtractFaults THEN "none" ELSE "propagate"

\* -------------------------------------------------------- generate_candidates
\* `a and b`, for texts
And(a, b) == IF a = << >> THEN a ELSE b

\* lines 170-171
Aliases == << << "h", "e", "l", "l", "o" >>, << "c", "o", "n", "t", "a", "c", "t" >>,
             << "i", "n", "f", "o" >>, << "h", "i" >>, << "t", "e", "a", "m" >>,
             << "s", "u", "p", "p", "o", "r", "t" >>, << "s", "a", "l", "e", "s" >>,
             << "a", "d", "m", "i", "n" >> >>

\* Mutant: the loop of lines 173-179 left out.
Dedupe_Never(combos, seen) == combos

RECURSIVE Dedupe(_, _)
Dedupe(combos, seen) ==
  IF combos = << >> THEN << >>
  ELSE IF Head(combos) \in seen THEN Dedupe(Tail(combos), seen)
  ELSE << Head(combos) >> \o Dedupe(Tail(combos), seen \cup { Head(combos) })

\* lines 142-180
generate_candidates(first, last, dom) ==
  LET f  == OnlyLowercase(lower(first))
      l  == OnlyLowercase(lower(last))
      fl == IF f # << >> THEN SubSeq(f, 1, Min(1, Len(f))) \o l ELSE << >>
      lf == IF l # << >> THEN SubSeq(l, 1, Min(1, Len(l))) \o f ELSE << >>
      pieces ==
        << f,
           And(f, And(l, f \o << "." >> \o l)),
           And(f, And(l, fl)),
           And(f, And(l, f \o l)),
           And(f, And(l, f \o << "_" >> \o l)),
           And(f, And(l, f \o << "-" >> \o l)),
           And(f, And(l, SubSeq(f, 1, 1) \o l)),
           And(f, And(l, SubSeq(f, 1, 1) \o << "." >> \o l)),
           And(f, And(l, f \o SubSeq(l, 1, 1))),
           And(f, And(l, f \o << "." >> \o SubSeq(l, 1, 1))),
           l,
           lf >>
      At(p)  == [local |-> p, domain |-> dom]
      named  == SelectSeq(pieces, LAMBDA p : p # << >>)
      combos == IF named # << >>
                  THEN [j \in 1..Len(named) |-> At(named[j])]
                  ELSE [j \in 1..Len(Aliases) |-> At(Aliases[j])]
  IN  IF f = << >> /\ l = << >> THEN << >> ELSE Dedupe(combos, {})

\* ---------------------------------------------------------------------- main
\* dict.get of a row, with `or ''`
Cell(row, key) == IF key \in DOMAIN row THEN row[key] ELSE << >>

\* a or b or c, for texts
FirstText(row, keys) ==
  IF \E j \in 1..Len(keys) : Cell(row, keys[j]) # << >>
    THEN Cell(row, keys[CHOOSE j \in 1..Len(keys) :
                          /\ Cell(row, keys[j]) # << >>
                          /\ \A m \in 1..(j - 1) : Cell(row, keys[m]) = << >>])
    ELSE << >>

\* line 301
website_headers_preferred == << "Website", "Company Website", "Website URL" >>

\* lines 324-329
WebsiteOf(row) ==
  LET filled == { j \in 1..Len(website_headers_preferred) :
                    /\ website_headers_preferred[j] \in DOMAIN row
                    /\ ~EmptyText(row[website_headers_preferred[j]])
                    /\ ~EmptyText(StripUrl(row[website_headers_preferred[j]])) }
  IN  IF filled = {} THEN NoWebsite
      ELSE StripUrl(row[website_headers_preferred[
                          CHOOSE a \in filled : \A b \in filled : a <= b]])

\* header_map.get(name): the column of the header, 0 for None
HeaderIndex(hdr, name) ==
  LET cols == { j \in 1..Len(hdr) : LowerWord(hdr[j]) = name }
  IN  IF cols = {} THEN 0 ELSE CHOOSE a \in cols : \A b \in cols : a >= b

\* a or b, for columns
OrIndex(a, b) == IF a # 0 THEN a ELSE b

\* lines 303-313: the header row has the columns main requires
RequiredHeaders(hdr) ==
  LET first_idx == OrIndex(HeaderIndex(hdr, "first name"),
                     OrIndex(HeaderIndex(hdr, "firstname"), HeaderIndex(hdr, "firstname")))
      last_idx  == OrIndex(HeaderIndex(hdr, "last name"),
                     OrIndex(HeaderIndex(hdr, "lastname"), HeaderIndex(hdr, "lastname")))
  IN  first_idx # 0 /\ last_idx # 0 /\ HeaderIndex(hdr, "status") # 0

SCRAPED == << "S", "C", "R", "A", "P", "E", "D" >>

\* Mutant: the header row not counted.
RowNumber_NoHeaderRow(n) == n + 1

\* line 317: the sheet row of the record with index n
RowNumber(n) == n + 2

\* Mutant: the test of lines 330-332 left out.
SkipsRow_IgnoresEmail(row) ==
  LET status_val == upper(strip(Cell(row, "Status")))
      first      == strip(FirstText(row, << "First Name", "FirstName", "firstName" >>))
      last       == strip(FirstText(row, << "Last Name", "LastName", "lastName" >>))
      dom        == normalize_domain(WebsiteOf(row))
  IN  \/ status_val # SCRAPED
      \/ dom = None
      \/ generate_candidates(first, last, dom) = << >>

\* lines 318-340: the tests that make main `continue`
SkipsRow(row) ==
  LET status_val    == upper(strip(Cell(row, "Status")))
      first         == strip(FirstText(row, << "First Name", "FirstName", "firstName" >>))
      last          == strip(FirstText(row, << "Last Name", "LastName", "lastName" >>))
      current_email == strip(Cell(row, "Email"))
      dom           == normalize_domain(WebsiteOf(row))
  IN  \/ status_val # SCRAPED
      \/ current_email # << >>
      \/ dom = None
      \/ generate_candidates(first, last, dom) = << >>

\* Mutant: the test of line 341 always taken as true.
VerifyBySmtp_Always == TRUE

\* line 341
VerifyBySmtp == SMTP_ENABLED

\* line 346
HeuristicResult(cands) ==
  [email |-> IF Len(cands) > 0 THEN cands[1] ELSE "", status |-> "HEURISTIC"]

\* lines 279-287: the cells update_sheet writes
update_sheet(row, mail, status) ==
  LET email_idx  == HeaderIndex(headers, "email")
      status_idx == OrIndex(HeaderIndex(headers, "email status"),
                      OrIndex(HeaderIndex(headers, "email_status"),
                              HeaderIndex(headers, "emailstatus")))
  IN  /\ updates' = Append(updates, [row_number |-> row, email |-> mail,
                                     status |-> status])
      /\ writes' = writes
                     \o (IF email_idx # 0 THEN << << row, email_idx, mail >> >> ELSE << >>)
                     \o (IF status_idx # 0 THEN << << row, status_idx, status >> >> ELSE << >>)

\* The locals of choose_best and smtp_rcpt_check, as a call finds them.
FreshProbe ==
  /\ ci' = 0 /\ hi' = 0 /\ kind' = "primary"
  /\ conn' = NoConn
  /\ code' = 0 /\ code_fake' = 0
  /\ ret' = NoRet
  /\ outcomes' = << >> /\ contacted' = {} /\ rejected' = {}
  /\ conns' = << >> /\ probeLog' = << >>
  /\ lastFault' = NoFault

\* lines 291-314: configuration and header checks
MainStart ==
  /\ pc = "main_start"
  /\ IF SHEET_NAME = "" \/ ~RequiredHeaders(headers)
       THEN pc' = "main_end"
       ELSE pc' = "main_for"
  /\ UNCHANGED << callVars, mainVars, mxVars, probeVars >>

\* lines 316-346: the next row, up to the call of get_mx_hosts
MainFor ==
  /\ pc = "main_for"
  /\ i < Len(rows)
  /\ i' = i + 1
  /\ row_number' = RowNumber(i)
  /\ LET row   == rows[i + 1]
         first == strip(FirstText(row, << "First Name", "FirstName", "firstName" >>))
         last  == strip(FirstText(row, << "Last Name", "LastName", "lastName" >>))
         dom   == normalize_domain(WebsiteOf(row))
         cands == generate_candidates(first, last, dom)
     IN  IF SkipsRow(row)
           THEN /\ pc' = "main_for"
                /\ UNCHANGED << candidates, domain, calls, lookup, result >>
           ELSE /\ candidates' = cands
                /\ domain' = dom
                /\ IF VerifyBySmtp
                     THEN /\ pc' = "mx_if"
                          /\ calls' = calls + 1
                          /\ lookup' = NoLookup
                          /\ UNCHANGED result
                     ELSE /\ result' = HeuristicResult(cands)
                          /\ pc' = "main_update"
                          /\ UNCHANGED << calls, lookup >>
  /\ UNCHANGED << callVars, SHEET_NAME, SMTP_ENABLED, headers, rows, processed, updates, writes,
                  mx_cache, mx_ret, netIO, returned,
                  mx_hosts, ci, hi, kind, conn, code, code_fake, ret, hist,
                  lastFault, escaped >>

\* lines 342-343: get_mx_hosts has returned; the call of choose_best
MainChooseBest ==
  /\ pc = "mx_done"
  /\ mx_hosts' = mx_ret
  /\ FreshProbe
  /\ delays' = 0
  /\ lookup' = NoLookup
  /\ pc' = "cb_for"
  /\ UNCHANGED << callVars, mainVars, domain, mx_cache, mx_ret, calls, netIO, returned,
                  candidates, result, sinceDelay, escaped >>

\* lines 347-350: the result is written, and the delay before the next row
MainUpdate ==
  /\ pc \in { "cb_done", "main_update" }
  /\ update_sheet(row_number, result.email, result.status)
  /\ processed' = processed + 1
  /\ smart_delay
  /\ FreshProbe
  /\ result' = NoResult
  /\ pc' = "main_for"
  /\ UNCHANGED << callVars, SHEET_NAME, SMTP_ENABLED, headers, rows, i, row_number,
                  mxVars, candidates, mx_hosts, escaped >>

\* line 352
MainDone ==
  /\ pc = "main_for"
  /\ i >= Len(rows)
  /\ pc' = "main_end"
  /\ UNCHANGED << callVars, mainVars, mxVars, probeVars >>

InitMain ==
  /\ pc = "main_start"
  /\ SHEET_NAME \in { "", "Leads" }
  /\ SMTP_ENABLED \in BOOLEAN
  /\ headers \in Layouts
  /\ \E leads \in LeadLists :
       rows = [r \in 1..Len(leads) |-> RowOf(headers, leads[r])]
  /\ i = 0 /\ row_number = 0 /\ processed = 0
  /\ updates = << >> /\ writes = << >>
  /\ input = << >> /\ output = << >> /\ workers = NoWorkers
  /\ InitNoScraper
  /\ candidates = << >> /\ mx_hosts = << >>
  /\ InitProbe
  /\ InitMx

NextMain ==
  \/ MainStart
  \/ MainFor
  \/ GetMxHostsIf
  \/ GetMxHostsResolve
  \/ GetMxHostsFallback
  \/ MainChooseBest
  \/ NextProbe
  \/ MainUpdate
  \/ MainDone

SpecMain == InitMain /\ [][NextMain]_vars

\* ------------------------------------------- generate_candidates by itself
InitGen ==
  /\ pc = "gc_call"
  /\ input \in [first : Names, last : Names, domain : Domains]
  /\ output = << >>
  /\ workers = NoWorkers
  /\ InitNoScraper
  /\ SHEET_NAME = "" /\ SMTP_ENABLED = TRUE
  /\ headers = << >> /\ rows = << >>
  /\ i = 0 /\ row_number = 0 /\ processed = 0
  /\ updates = << >> /\ writes = << >>
  /\ candidates = << >> /\ mx_hosts = << >>
  /\ InitProbe
  /\ InitMx

\* lines 142-180: one call
GenerateCandidates ==
  /\ pc = "gc_call"
  /\ output' = generate_candidates(input.first, input.last, input.domain)
  /\ pc' = "gc_done"
  /\ UNCHANGED << input, workers, scraperVars, mainVars, mxVars, probeVars >>

NextGen == GenerateCandidates

SpecGen == InitGen /\ [][NextGen]_vars

\* ---------------------------------------------- normalize_domain by itself
InitNorm ==
  /\ pc = "nd_call"
  /\ input \in Websites
  /\ output = << >>
  /\ workers = NoWorkers
  /\ InitNoScraper
  /\ SHEET_NAME = "" /\ SMTP_ENABLED = TRUE
  /\ headers = << >> /\ rows = << >>
  /\ i = 0 /\ row_number = 0 /\ processed = 0
  /\ updates = << >> /\ writes = << >>
  /\ candidates = << >> /\ mx_hosts = << >>
  /\ InitProbe
  /\ InitMx

\* lines 95-115: one call; tldextract.extract, when the call gets to it,
\* returns or raises
NormalizeDomain ==
  /\ pc = "nd_call"
  /\ \/ /\ output' = normalize_domain(input)
        /\ pc' = "nd_done"
     \/ /\ ~EmptyText(input) /\ ~EmptyText(StripUrl(input))
        /\ \E f \in ExtractFaults :
             IF ExtractExcept(f) = "none"
               THEN output' = None /\ pc' = "nd_done"
               ELSE output' = f /\ pc' = "nd_raised"
  /\ UNCHANGED << input, workers, scraperVars, mainVars, mxVars, probeVars >>

NextNorm == NormalizeDomain

SpecNorm == InitNorm /\ [][NextNorm]_vars

\* =================================================================
\* Properties of choose_best and smtp_rcpt_check (specification Spec)
\* =================================================================
Confident    == { "DELIVERABLE", "CATCH_ALL" }
NotConfident == { "UNDELIVERABLE", "MX_UNVERIFIABLE" }
Statuses     == Confident \cup NotConfident
Details      == Range(mx_hosts) \cup { "no_mx", "all_failed" }

\* Entries of probeLog: RCPT TO for the candidate, and for the fake address.
PrimaryReplies == { e \in Range(probeLog) : e[2] = "primary" }
ControlReplies == { e \in Range(probeLog) : e[2] = "control" }

\* C1: once a host has answered 2xx to RCPT TO for the candidate and to RCPT
\* TO for the negative-control address, choose_best returns the status
\* CATCH_ALL.
C1_CatchAllWhenControlAccepted ==
  ( /\ pc = "cb_done"
    /\ \E p \in PrimaryReplies, c \in ControlReplies :
          p[1] = c[1] /\ p[4] = "2xx" /\ c[4] = "2xx" )
  => result.status = "CATCH_ALL"

\* C2: once a host has answered 2xx to RCPT TO for a candidate and then
\* something other than 2xx to the negative-control RCPT TO, the probe is on
\* its way out (no connection is opened any more, none was opened for a later
\* candidate) and choose_best returns (that candidate, DELIVERABLE).
C2_DeliverableWhenControlRejects ==
  \A p \in PrimaryReplies, c \in ControlReplies :
    (p[1] = c[1] /\ p[4] = "2xx" /\ c[4] # "2xx") =>
       /\ pc \in { "quit", "cb_if", "cb_done" }
       /\ p[3] = candidates[ci]
       /\ contacted \subseteq 1..ci
       /\ pc = "cb_done" => result = [email |-> p[3], status |-> "DELIVERABLE"]

C2_Witness ==
  /\ pc = "cb_done"
  /\ result.status = "DELIVERABLE"
  /\ ci = 2 /\ Len(candidates) = 3
  /\ \E c \in ControlReplies : c[4] = "5xx"

\* C3: choose_best returns the first candidate, in list order, whose probe
\* ended DELIVERABLE or CATCH_ALL, with that status; every earlier candidate
\* was probed and ended UNDELIVERABLE or MX_UNVERIFIABLE, and no connection is
\* ever attempted for a later candidate.
C3_FirstConfidentCandidateWins ==
  LET n == Len(outcomes) IN
  /\ n <= ci /\ ci <= n + 1
  /\ contacted \subseteq 1..ci
  /\ \A j \in 1..(n - 1) : outcomes[j] \in NotConfident
  /\ (n > 0 /\ outcomes[n] \in Confident) =>
        /\ pc = "cb_done"
        /\ ci = n
        /\ result = [email |-> candidates[n], status |-> outcomes[n]]
  /\ (pc = "cb_done" /\ result.status \in Confident) =>
        n > 0 /\ outcomes[n] = result.status

C3_Witness ==
  /\ pc = "cb_done"
  /\ Len(candidates) = 3
  /\ outcomes = << "UNDELIVERABLE", "CATCH_ALL" >>
  /\ result.email = candidates[2]

\* C4: with an empty host list no connection is attempted and no
\* rate-limiter delay is taken, and choose_best returns (first candidate,
\* MX_UNVERIFIABLE).
C4_EmptyHostListNoNetwork ==
  Len(mx_hosts) = 0 =>
    /\ conns = << >> /\ contacted = {} /\ conn = NoConn
    /\ delays = 0 /\ sinceDelay = 0
    /\ (pc = "cb_done" /\ Len(candidates) > 0) =>
          result = [email |-> candidates[1], status |-> "MX_UNVERIFIABLE"]

C4_Witness ==
  /\ pc = "cb_done"
  /\ Len(mx_hosts) = 0
  /\ Len(candidates) >= 2
  /\ Len(outcomes) = Len(candidates)
  /\ result = [email |-> candidates[1], status |-> "MX_UNVERIFIABLE"]

\* C5: when every candidate was probed and no probe ended DELIVERABLE or
\* CATCH_ALL, choose_best returns (first candidate, MX_UNVERIFIABLE).
C5_ExhaustedReturnsFirstCandidate ==
  ( /\ pc = "cb_done"
    /\ Len(candidates) > 0
    /\ Len(outcomes) = Len(candidates)
    /\ \A j \in 1..Len(outcomes) : outcomes[j] \notin Confident )
  => result = [email |-> candidates[1], status |-> "MX_UNVERIFIABLE"]

C5_Witness ==
  /\ pc = "cb_done"
  /\ Len(mx_hosts) > 0
  /\ outcomes = << "MX_UNVERIFIABLE", "UNDELIVERABLE" >>
  /\ Len(candidates) = 2
  /\ result.email = candidates[1]

\* C6: when choose_best returns (e, MX_UNVERIFIABLE), no host answered 5xx to
\* RCPT TO for e.
C6_UnverifiableNeverConfirmedInvalid ==
  (pc = "cb_done" /\ result.status = "MX_UNVERIFIABLE") =>
     \A j \in rejected : candidates[j] # result.email

C9_SecondCallFromCache ==
  \A d \in Domains :
    /\ netIO[d].mx <= 1 /\ netIO[d].a <= 1
    /\ \A k \in 1..Len(returned[d]) : returned[d][k] = returned[d][1]
    /\ (d = domain /\ pc = "mx_done") =>
          (lookup.mx <=> Len(returned[d]) = 1)

C9_Witness ==
  /\ pc = "mx_done"
  /\ ~lookup.mx
  /\ Len(returned[domain]) = 2
  /\ returned[domain] = << << >>, << >> >>
  /\ netIO[domain] = [mx |-> 1, a |-> 1]

\* C10: a call that queries the DNS returns the hostnames of the MX records
\* (one entry per record, without the trailing dot) when the MX query
\* succeeds, the one-element list [domain] when it fails and the domain has an
\* address record, and the empty list when neither resolves.
C10_HostListByLookupOutcome ==
  (pc = "mx_done" /\ lookup.mx) =>
     IF lookup.answers # {}
       THEN /\ Range(mx_ret) = { r.exchange[1] : r \in lookup.answers }
            /\ Len(mx_ret) = Cardinality(lookup.answers)
            /\ lookup.a = "none"
     ELSE IF lookup.a = "ok" THEN mx_ret = << domain >>
     ELSE lookup.a = "fail" /\ mx_ret = << >>

C10_Witness ==
  /\ pc = "mx_done"
  /\ lookup.mx /\ lookup.answers = {} /\ lookup.a = "ok"
  /\ mx_ret = << domain >>

\* =================================================================
\* Properties of main (specification SpecMain)
\* =================================================================
ResultStatuses ==
  { "DELIVERABLE", "CATCH_ALL", "UNDELIVERABLE", "MX_UNVERIFIABLE", "HEURISTIC" }

\* The leads of LeadPool with status SCRAPED (in any case, with white space
\* around it), no email but white space, a website with a registrable domain
\* that is no social network, and a letter in the first or in the last name.
EngineLeads == { 6, 7 }

\* main is done with the lead of the r-th record
Handled(r) == r < i \/ (r = i /\ pc \in { "main_for", "main_end" })

UpdatesFor(r) == { k \in 1..Len(updates) : updates[k].row_number = r + 1 }

\* C7: in a run of main over a sheet it accepts, the calls of update_sheet
\* name rows of the sheet and carry a non-empty email and a status of the
\* result enumeration; a lead that reaches the engine has exactly one call
\* for its row once main is done with it, and no other row has any; main ends
\* with every row handled.
C7_ExactlyOneResultPerLead ==
  /\ \A k \in 1..Len(updates) :
       /\ updates[k].row_number \in 2..(Len(rows) + 1)
       /\ updates[k].email \in [local : Seq(Range(Lowercase)) \ { << >> },
                                domain : { "acme.io" }]
       /\ updates[k].status \in ResultStatuses
  /\ \A r \in 1..Len(rows) :
       Cardinality(UpdatesFor(r)) = IF r \in EngineLeads /\ Handled(r) THEN 1 ELSE 0
  /\ processed = Len(updates)
  /\ (pc = "main_end" /\ SHEET_NAME # "" /\ "Status" \in Range(headers))
        => i = Len(rows)

C7_Witness ==
  /\ pc = "main_end"
  /\ Len(rows) >= 7
  /\ Len(updates) >= 2
  /\ updates[1].row_number = 7 /\ updates[1].status = "CATCH_ALL"
  /\ updates[2].row_number = 8 /\ updates[2].status = "MX_UNVERIFIABLE"

\* C11: get_mx_hosts raises nothing; a call whose MX query failed returns
\* [domain] or the empty list, the empty list when the address lookup failed
\* too; the list a call returns is the one the cache holds for the domain;
\* and with the empty list choose_best ends, without raising, with the first
\* candidate and MX_UNVERIFIABLE, having opened no connection.
C11_ResolutionFailureDegrades ==
  /\ pc \notin { "mx_raised", "raised" }
  /\ pc = "mx_done" =>
        /\ domain \in DOMAIN mx_cache /\ mx_cache[domain] = mx_ret
        /\ lookup.exc \in ResolveFaults => mx_ret = << domain >>
        /\ lookup.exc \in LookupFaults => mx_ret = << >>
        /\ (lookup.mx /\ lookup.answers = {}) => lookup.exc # ""
  /\ (pc = "cb_done" /\ mx_hosts = << >>) =>
        /\ result = [email |-> candidates[1], status |-> "MX_UNVERIFIABLE"]
        /\ contacted = {}

C11_Witness ==
  /\ pc = "cb_done"
  /\ mx_hosts = << >>
  /\ mx_cache[domain] = << >>
  /\ netIO[domain] = [mx |-> 1, a |-> 1]
  /\ Len(candidates) = 2
  /\ result.status = "MX_UNVERIFIABLE"

\* =================================================================
\* Properties of generate_candidates (specification SpecGen)
\* =================================================================
\* The name parts as generate_candidates uses them (lines 143-144).
first_clean == OnlyLowercase(lower(input.first))
last_clean  == OnlyLowercase(lower(input.last))

\* C12: for names that are not both empty, the list returned has no address
\* twice and at most 12 entries, and when the cleaned first name is not
\* empty its first entry is that name at the domain.
C12_DedupedAtMostTwelveFirstLeads ==
  (pc = "gc_done" /\ ~(input.first = << >> /\ input.last = << >>)) =>
     /\ \A a, b \in 1..Len(output) : a # b => output[a] # output[b]
     /\ Len(output) <= 12
     /\ first_clean # << >> =>
           /\ Len(output) >= 1
           /\ output[1] = [local |-> first_clean, domain |-> input.domain]

C12_Witness ==
  /\ pc = "gc_done"
  /\ input.first = << "J", "a" >> /\ input.last = << "a", "b" >>
  /\ Len(output) = 11
  /\ output[1].local = << "j", "a" >>

\* C13: when both name parts are empty, or clean to empty, the list returned
\* is the 8 generic aliases hello, contact, info, hi, team, support, sales,
\* admin at the domain, in that order.
C13_BothEmptyGivesAliases ==
  (pc = "gc_done" /\ first_clean = << >> /\ last_clean = << >>) =>
     /\ Len(output) = 8
     /\ \A j \in 1..8 : output[j] = [local |-> Aliases[j], domain |-> input.domain]

\* The 12 patterns of the specification, in priority order, each with the
\* name parts it needs.
Patterns(f, l) ==
  LET f1 == SubSeq(f, 1, Min(1, Len(f)))
      l1 == SubSeq(l, 1, Min(1, Len(l)))
  IN  << [first |-> TRUE,  last |-> FALSE, local |-> f],
         [first |-> TRUE,  last |-> TRUE,  local |-> f \o << "." >> \o l],
         [first |-> TRUE,  last |-> TRUE,  local |-> f1 \o l],
         [first |-> TRUE,  last |-> TRUE,  local |-> f \o l],
         [first |-> TRUE,  last |-> TRUE,  local |-> f \o << "_" >> \o l],
         [first |-> TRUE,  last |-> TRUE,  local |-> f \o << "-" >> \o l],
         [first |-> TRUE,  last |-> TRUE,  local |-> f1 \o l],
         [first |-> TRUE,  last |-> TRUE,  local |-> f1 \o << "." >> \o l],
         [first |-> TRUE,  last |-> TRUE,  local |-> f \o l1],
         [first |-> TRUE,  last |-> TRUE,  local |-> f \o << "." >> \o l1],
         [first |-> FALSE, last |-> TRUE,  local |-> l],
         [first |-> TRUE,  last |-> TRUE,  local |-> l1 \o f] >>

RECURSIVE FirstOccurrences(_)
FirstOccurrences(q) ==
  IF q = << >> THEN << >>
  ELSE LET r == FirstOccurrences(SubSeq(q, 1, Len(q) - 1))
       IN  IF q[Len(q)] \in Range(r) THEN r ELSE Append(r, q[Len(q)])

\* C14: when a cleaned name part is not empty, the list returned is the 12
\* patterns in priority order, without the patterns that need a part that is
\* missing, each address kept at its first occurrence only; with one part
\* alone, no pattern that combines both parts is in the list.
C14_PatternsInPriorityOrder ==
  (pc = "gc_done" /\ (first_clean # << >> \/ last_clean # << >>)) =>
     LET formed == SelectSeq(Patterns(first_clean, last_clean),
                             LAMBDA p : /\ p.first => first_clean # << >>
                                        /\ p.last => last_clean # << >>)
     IN  output = FirstOccurrences([j \in 1..Len(formed) |->
                     [local |-> formed[j].local, domain |-> input.domain]])

\* C15: in a run with SMTP_ENABLED false, main sends no MX query and no
\* address lookup, calls neither get_mx_hosts nor choose_best, opens no SMTP
\* connection, and every result it writes is the first candidate generated
\* for the lead with the status HEURISTIC.
C15_DisabledIsHeuristicWithoutNetwork ==
  ~SMTP_ENABLED =>
     /\ pc \in { "main_start", "main_for", "main_update", "main_end" }
     /\ calls = 0 /\ mx_cache = << >>
     /\ \A d \in Domains : netIO[d] = [mx |-> 0, a |-> 0]
     /\ conns = << >> /\ contacted = {} /\ probeLog = << >>
     /\ \A k \in 1..Len(updates) :
          /\ updates[k].status = "HEURISTIC"
          /\ updates[k].row_number = 7 =>
                updates[k].email = [local |-> << "j", "a", "n", "e" >>,
                                    domain |-> "acme.io"]
          /\ updates[k].row_number = 8 =>
                updates[k].email = [local |-> << "o", "n", "e", "i", "l" >>,
                                    domain |-> "acme.io"]
          /\ updates[k].row_number \in { 7, 8 }

C15_Witness ==
  /\ ~SMTP_ENABLED
  /\ pc = "main_end"
  /\ Len(updates) = 2
  /\ updates[2].status = "HEURISTIC"
  /\ updates[2].email.local = << "o", "n", "e", "i", "l" >>

\* =================================================================
\* Properties of the SMTP exchange (specification Spec)
\* =================================================================
CommandNames == [j \in 1..Len(conn.cmds) |-> conn.cmds[j][1]]

IsPrefix(a, b) == Len(a) <= Len(b) /\ SubSeq(b, 1, Len(a)) = a

\* The exchanges of a connection: STARTTLS is not sent to a server that does
\* not offer it, and the re-greeting is left out when STARTTLS fails.
AllowedExchanges ==
  { << "EHLO", "STARTTLS", "EHLO", "MAIL", "RCPT" >>,
    << "EHLO", "STARTTLS", "MAIL", "RCPT" >>,
    << "EHLO", "MAIL", "RCPT" >> }

\* C16: on every connection the commands sent are, in this order, the
\* greeting, STARTTLS with or without the re-greeting, MAIL FROM and one
\* RCPT TO for the recipient of the connection, up to the point the exchange
\* got to, with QUIT as the last command if any; DATA is never sent, and
\* RCPT TO at most once.
C16_NoBodyEverSent ==
  LET names == CommandNames
      n     == Len(names)
      body  == IF n > 0 /\ names[n] = "QUIT" THEN SubSeq(names, 1, n - 1) ELSE names
  IN  /\ \E t \in AllowedExchanges : IsPrefix(body, t)
      /\ \A j \in 1..n : names[j] \in { "EHLO", "STARTTLS", "MAIL", "RCPT", "QUIT" }
      /\ Cardinality({ j \in 1..n : names[j] = "RCPT" }) <= 1
      /\ \A j \in 1..n : names[j] = "RCPT" => conn.cmds[j] = << "RCPT", conn.rcpt >>
      /\ ~conn.open => (n = 0 \/ names[n] = "QUIT")

C16_Witness ==
  /\ conn.kind = "control"
  /\ ~conn.open
  /\ CommandNames = << "EHLO", "STARTTLS", "EHLO", "MAIL", "RCPT", "QUIT" >>
  /\ pc = "cb_if"

\* C17: every MAIL FROM sent, on the connection of the candidate and on the
\* connection of the negative control, has the null reverse-path <> as its
\* sender.
C17_NullReversePath ==
  \A j \in 1..Len(conn.cmds) :
     conn.cmds[j][1] = "MAIL" => conn.cmds[j] = << "MAIL", "<>" >>

C17_Witness ==
  /\ pc = "rcpt"
  /\ kind = "control" /\ conn.kind = "control"
  /\ conn.cmds[Len(conn.cmds)] = << "MAIL", "<>" >>

\* C18: every connection attempt, that of the negative control included,
\* comes after a smart_delay of its own: no two connection attempts are made
\* without a smart_delay between them.
C18_DelayBeforeEveryConnection == sinceDelay <= 1

\* =================================================================
\* Properties of normalize_domain (specification SpecNorm)
\* =================================================================
\* The host name of the input ends in a blocklisted registrable domain, in
\* any letter case.
EndsInBlocklisted ==
  LET n == Len(input.labels)
  IN  /\ n >= 2
      /\ input.labels[n] \in { "com", "COM" }
      /\ input.labels[n - 1] \in { "linkedin", "LinkedIn", "x" }

\* Lowercase registrable domains: a label and a public suffix, or a label
\* alone for a host name that ends in no public suffix.
RegistrableDomains ==
  LET names == { "www", "acme", "linkedin", "x", "com", "co", "uk" }
  IN  names \cup { d \o "." \o sfx : d \in names, sfx \in { "com", "co", "uk", "co.uk" } }

Decisive ==
  { j \in 1..Len(probeLog) :
      probeLog[j][2] = "primary" /\ probeLog[j][4] \in { "2xx", "5xx" } }

FirstDecisive == CHOOSE j \in Decisive : \A k \in Decisive : j <= k

\* C20: within one probe, once a host has answered 5xx to RCPT TO for the
\* candidate no later host of the list is contacted and smtp_rcpt_check
\* returns UNDELIVERABLE with that host; it returns UNDELIVERABLE with host h
\* exactly when h is the first host whose reply was 2xx or 5xx and the reply
\* was 5xx.
C20_UndeliverableOnFirstDecisive5xx ==
  /\ \A j \in 1..Len(probeLog) :
       (probeLog[j][2] = "primary" /\ probeLog[j][4] = "5xx") =>
          \A k \in 1..Len(conns) : conns[k][1] <= probeLog[j][1]
  /\ pc = "cb_if" =>
       /\ ret.status = "UNDELIVERABLE"
             <=> (Decisive # {} /\ probeLog[FirstDecisive][4] = "5xx")
       /\ ret.status = "UNDELIVERABLE"
             => ret.detail = mx_hosts[probeLog[FirstDecisive][1]]

\* The hosts (indices of mx_hosts) that answered RCPT TO for the candidate, in
\* the current probe, with a code that is neither 2xx nor 5xx.
Inconclusive ==
  { p[1] : p \in { e \in PrimaryReplies : e[4] = "other" } }

\* C21: a host that answered RCPT TO for the candidate with a code outside
\* 2xx and 5xx gets no negative-control connection and gives no verdict: the
\* next connection of the probe is the candidate's connection to the next
\* host of the list, and when the host was the last one smtp_rcpt_check
\* returns (MX_UNVERIFIABLE, all_failed).
C21_InconclusiveReplyAdvances ==
  \A h \in Inconclusive :
    /\ \A k \in 1..Len(conns) : conns[k] # << h, "control" >>
    /\ \A k \in 1..Len(conns) :
         conns[k] = << h, "primary" >> =>
           IF k < Len(conns)
             THEN conns[k + 1] = << h + 1, "primary" >>
           ELSE \/ pc \in { "quit", "rc_for" } /\ hi = h
                \/ pc = "connect" /\ hi = h + 1 /\ kind = "primary"
                \/ /\ pc \in { "cb_if", "cb_for", "cb_done" }
                   /\ h = Len(mx_hosts)
                   /\ ret = [status |-> "MX_UNVERIFIABLE", detail |-> "all_failed"]
    /\ pc = "cb_if" => ret.detail # mx_hosts[h]

C21_Witness ==
  /\ Inconclusive = { 1 }
  /\ conns = << << 1, "primary" >>, << 2, "primary" >> >>
  /\ pc = "ehlo"

\* C22 as stated: on no connection is RCPT TO sent after the host answered
\* MAIL FROM with a code of 400 or more.
C22_NoRcptAfterRefusedMail ==
  conn.refused => \A j \in 1..Len(conn.cmds) : conn.cmds[j][1] # "RCPT"

\* C22 on the connection of the candidate: after a MAIL FROM reply of 400 or
\* more no RCPT TO is sent on it, QUIT is, and the probe goes to the next
\* host.
C22_RefusedMailOnPrimaryAdvances ==
  (conn.kind = "primary" /\ conn.refused) =>
     /\ \A j \in 1..Len(conn.cmds) : conn.cmds[j][1] # "RCPT"
     /\ conn.host = mx_hosts[hi]
     /\ \/ pc = "quit_mail"
        \/ /\ conn.cmds[Len(conn.cmds)] = << "QUIT" >>
           /\ \/ pc = "rc_for"
              \/ /\ pc = "cb_if" /\ hi = Len(mx_hosts)
                 /\ ret = [status |-> "MX_UNVERIFIABLE", detail |-> "all_failed"]

C22_Witness ==
  /\ conn.kind = "primary" /\ conn.refused /\ code = 550 /\ ~conn.open
  /\ conn.host = mx_hosts[1]
  /\ pc = "rc_for" /\ hi = 1 /\ Len(mx_hosts) = 2

\* The hosts (indices of mx_hosts) the current probe attempted the candidate's
\* connection to.
Tried == { conns[k][1] : k \in { m \in 1..Len(conns) : conns[m][2] = "primary" } }

\* C23: smtp_rcpt_check returns MX_UNVERIFIABLE exactly when every host of
\* the list was tried (none, for the empty list) and no host answered RCPT TO
\* for the candidate with a 2xx or a 5xx.
C23_UnverifiableIffNoDecisiveReply ==
  pc = "cb_if" =>
    ( ret.status = "MX_UNVERIFIABLE"
        <=> (Tried = 1..Len(mx_hosts) /\ Decisive = {}) )

\* C24: when smtp_rcpt_check goes to the next host, opens a connection or
\* returns, the connection it opened before is closed, and was closed by a
\* QUIT.
C24_ClosedBeforeNextConnectionAndReturn ==
  pc \in { "rc_for", "connect", "cb_if" } =>
    /\ ~conn.open
    /\ conn.cmds # << >> => conn.cmds[Len(conn.cmds)] = << "QUIT" >>

\* The hosts (indices of mx_hosts) that answered RCPT TO for the candidate
\* with a 2xx in the current probe.
Accepted == { p[1] : p \in { e \in PrimaryReplies : e[4] = "2xx" } }

\* The hosts the current probe attempted a negative-control connection to.
Controlled ==
  { conns[k][1] : k \in { m \in 1..Len(conns) : conns[m][2] = "control" } }

\* C25: a negative-control connection is made to a host exactly when the
\* host answered RCPT TO for the candidate with a 2xx (the reply is followed
\* by QUIT and by the connection attempt); it is a new connection to the
\* same host, attempted right after the candidate's connection, which is
\* closed by then, and its recipient is another address at the candidate's
\* domain.
C25_ControlIffPrimaryAccepted ==
  /\ Controlled \subseteq Accepted
  /\ \A h \in Accepted :
       \/ h \in Controlled
       \/ hi = h /\ pc = "quit" /\ kind = "primary"
       \/ hi = h /\ pc = "connect" /\ kind = "control"
  /\ \A k \in 1..Len(conns) :
       conns[k][2] = "control" =>
          k > 1 /\ conns[k - 1] = << conns[k][1], "primary" >>
  /\ (pc = "connect" /\ kind = "control") =>
       /\ ~conn.open /\ conn.kind = "primary" /\ conn.host = host
       /\ conn.cmds[Len(conn.cmds)] = << "QUIT" >>
  /\ conn.kind = "control" =>
       /\ conn.host = host
       /\ conn.rcpt.domain = email.domain
       /\ conn.rcpt # email
       /\ \A j \in 1..Len(conn.cmds) :
            conn.cmds[j][1] = "RCPT" => conn.cmds[j][2] # email



\* The steps of the negative-control connection outside its inner try.
ControlSteps == { "connect", "ehlo", "mail", "rcpt", "quit" }

\* C26: when a step of the negative-control connection (connect, greeting,
\* MAIL FROM, RCPT TO, QUIT) raises, after the host answered RCPT TO for the
\* candidate with a 2xx, smtp_rcpt_check returns DELIVERABLE with that host
\* and no connection to a later host is attempted.
C26_ControlFaultGivesDeliverable ==
  (lastFault.kind = "control" /\ lastFault.step \in ControlSteps) =>
     /\ hi \in Accepted
     /\ pc = "cb_if"
     /\ ret = [status |-> "DELIVERABLE", detail |-> mx_hosts[hi]]
     /\ conns[Len(conns)] = << hi, "control" >>

C26_Witness ==
  /\ lastFault = [step |-> "quit", kind |-> "control", exc |-> "SMTPServerDisconnected"]
  /\ code_fake = 250
  /\ hi = 1 /\ Len(mx_hosts) = 2
  /\ ret = [status |-> "DELIVERABLE", detail |-> mx_hosts[1]]

\* What smtp_rcpt_check returns from the reply code c of RCPT TO for the
\* candidate on the connection to host h, when that connection is the last
\* one of the probe and its steps raised nothing.
UsualVerdict(c, h) ==
  IF Class(c) = "5xx" THEN [status |-> "UNDELIVERABLE", detail |-> h]
  ELSE [status |-> "MX_UNVERIFIABLE", detail |-> "all_failed"]

\* C27: a fault of STARTTLS, or of the greeting after it, leaves the
\* connection in use: the next step is MAIL FROM on the same connection, RCPT
\* TO follows MAIL FROM on it, and the value returned after that exchange is
\* the one the reply codes give (UNDELIVERABLE for a 5xx, the next host for
\* another code on the candidate's connection; CATCH_ALL or DELIVERABLE from
\* the code of the fake address on the negative-control connection).
C27_TlsFailureDoesNotEndExchange ==
  /\ lastFault.step \in { "starttls", "tls_ehlo" } =>
       /\ pc = "mail" /\ conn.tls_failed /\ conn.open
       /\ conn.host = host /\ conn.kind = kind
       /\ conn.cmds[Len(conn.cmds)][1] \in { "EHLO", "STARTTLS" }
  /\ conn.tls_failed =>
       /\ pc \in { "rcpt", "quit_mail" } =>
            conn.open /\ conn.cmds[Len(conn.cmds)] = << "MAIL", from_address >>
       /\ pc = "quit" =>
            /\ conn.open
            /\ conn.cmds[Len(conn.cmds)] = << "RCPT", conn.rcpt >>
            /\ conn.cmds[Len(conn.cmds) - 1] = << "MAIL", from_address >>
       /\ (pc = "cb_if" /\ conn.kind = kind /\ ~conn.open /\ ~conn.refused) =>
            IF conn.kind = "primary"
              THEN ret = UsualVerdict(code, conn.host)
              ELSE ret = [status |-> ControlVerdict(code_fake), detail |-> conn.host]

C27_Witness ==
  /\ conn.tls_failed /\ conn.kind = "primary"
  /\ conn.cmds = << << "EHLO" >>, << "STARTTLS" >>, << "MAIL", "<>" >>,
                    << "RCPT", email >>, << "QUIT" >> >>
  /\ pc = "cb_if"
  /\ ret = [status |-> "UNDELIVERABLE", detail |-> mx_hosts[1]]

\* The connection attempts of the current probe that are for the candidate.
PrimaryAttempts == SelectSeq(conns, LAMBDA e : e[2] = "primary")

InProbe == pc \notin { "cb_for", "cb_done", "raised" }

\* C28: within one call of choose_best the candidates are probed in list
\* order, one after the other has returned, and each probe attempts the
\* hosts in list order from the first host on, each at most once: the
\* attempts of the current probe are for hosts 1, 2, ... up to the host the
\* loop is at, they are for candidate ci, every earlier candidate has an
\* outcome and no later candidate was contacted.
C28_CandidatesThenHostsInOrder ==
  /\ \A k \in 1..Len(PrimaryAttempts) : PrimaryAttempts[k][1] = k
  /\ InProbe =>
       /\ Len(PrimaryAttempts) = IF pc = "connect" /\ kind = "primary" THEN hi - 1 ELSE hi
       /\ Len(outcomes) = ci - 1
       /\ ci \in 1..Len(candidates)
       /\ conn.kind = "primary" => conn.rcpt = candidates[ci] /\ conn.host = mx_hosts[hi]
  /\ ~InProbe => Len(outcomes) = ci
  /\ contacted \subseteq 1..ci
  /\ conns # << >> => ci \in contacted
  /\ hi \in 0..Len(mx_hosts)

C28_Witness ==
  /\ Len(candidates) = 3 /\ Len(mx_hosts) = 2
  /\ ci = 3 /\ hi = 2 /\ pc = "ehlo"
  /\ contacted = { 1, 2, 3 }
  /\ outcomes = << "MX_UNVERIFIABLE", "UNDELIVERABLE" >>
  /\ conns = << << 1, "primary" >>, << 2, "primary" >> >>

\* The preference of the MX record, in the answer of the current call, whose
\* exchange is the hostname h.
PreferenceOf(h) ==
  (CHOOSE r \in lookup.answers : HostText(r.exchange) = h).preference

\* C29: the list get_mx_hosts returns for a domain with MX records is in
\* order of MX preference, hostnames of equal preference in alphabetical
\* order.
C29_HostsByPreferenceThenName ==
  (pc = "mx_done" /\ lookup.mx /\ lookup.answers # {}) =>
     \A a, b \in 1..Len(mx_ret) :
        a < b =>
          \/ PreferenceOf(mx_ret[a]) < PreferenceOf(mx_ret[b])
          \/ /\ PreferenceOf(mx_ret[a]) = PreferenceOf(mx_ret[b])
             /\ Rank(mx_ret[a]) < Rank(mx_ret[b])

\* What the code does keep: the hostnames in alphabetical order.
C29_HostsAlphabetical ==
  (pc = "mx_done" /\ lookup.mx /\ lookup.answers # {}) =>
     \A a, b \in 1..Len(mx_ret) : a < b => Rank(mx_ret[a]) < Rank(mx_ret[b])

\* =================================================================
\* Properties of get_mx_hosts called by several threads (SpecMxWorkers)
\* =================================================================

\* The threads that have stored a list for domain d into _mx_cache.
Writers(d) == { w \in Workers : workers[w].domain = d /\ workers[w].stored }

\* C30: however the calls of the threads interleave, every domain is queried
\* over the network at most once, at most one thread stores a list for it
\* (so the first entry is never overwritten), and every caller gets the same
\* list for it.
C30_FirstWriterWins ==
  \A d \in Domains :
    /\ netIO[d].mx <= 1 /\ netIO[d].a <= 1
    /\ Cardinality(Writers(d)) <= 1
    /\ \A k \in 1..Len(returned[d]) : returned[d][k] = returned[d][1]

\* =================================================================
\* Termination of choose_best (specification Spec)
\* =================================================================

\* How far a connection is from its end: the steps left on it, the
\* negative-control connection coming after the candidate's.
StepsLeft ==
  LET r == CASE pc = "connect"   -> 7
             [] pc = "ehlo"      -> 6
             [] pc = "starttls"  -> 5
             [] pc = "tls_ehlo"  -> 4
             [] pc = "mail"      -> 3
             [] pc = "rcpt"      -> 2
             [] pc = "quit_mail" -> 2
             [] pc = "quit"      -> 1
             [] OTHER            -> 0
  IN  IF r = 0 THEN 0 ELSE IF kind = "primary" THEN r + 9 ELSE r + 1

\* A bound on the steps choose_best has left: the candidates not yet begun,
\* then the hosts the current probe has not yet begun, then the steps left
\* on the current connection.
PerHost(n) == 17 * n
PerProbe == PerHost(Len(mx_hosts)) + 20
Measure ==
  IF pc = "cb_done" THEN 0
  ELSE PerProbe * (Len(candidates) - ci)
       + ( CASE pc = "cb_for" -> 1
             [] pc = "cb_if"  -> 2
             [] pc = "rc_if"  -> 4 + PerHost(Len(mx_hosts))
             [] OTHER         -> 3 + PerHost(Len(mx_hosts) - hi) + StepsLeft )

\* C31: choose_best returns: every step brings it nearer to its return (the
\* measure, a natural number, goes down with every step, and only the return
\* leaves no step to take).  Until then every (candidate, host) pair gets at
\* most one connection for the candidate and at most one negative-control
\* connection (no entry of the probe's connection list occurs twice, so a
\* probe attempts at most 2 x |hosts| connections), and every candidate is
\* probed at most once (the list is begun anew only when the loop of
\* choose_best moves to the next candidate): at most 2 x |candidates| x
\* |hosts| connections in all.
C31_TerminatesWithinConnectionBudget ==
  /\ [][/\ Measure' < Measure
        /\ conns' # conns =>
              \/ conns' = << >> /\ ci' = ci + 1
              \/ \E e \in (1..Len(mx_hosts)) \X { "primary", "control" } :
                    conns' = Append(conns, e)]_vars
  /\ [](/\ Measure >= 0
        /\ \A a, b \in 1..Len(conns) : conns[a] = conns[b] => a = b
        /\ Len(conns) <= 2 * Len(mx_hosts)
        /\ ci <= Len(candidates) /\ Len(outcomes) <= ci)

C31_Witness ==
  /\ pc = "cb_done"
  /\ Len(candidates) = 3 /\ Len(mx_hosts) = 2
  /\ outcomes = << "MX_UNVERIFIABLE", "MX_UNVERIFIABLE", "CATCH_ALL" >>
  /\ conns = << << 1, "primary" >>, << 2, "primary" >>, << 2, "control" >> >>

\* The host (index of mx_hosts) smtp_rcpt_check names in its return value.
Named == { h \in 1..Len(mx_hosts) : mx_hosts[h] = ret.detail }

\* C32: smtp_rcpt_check returns CATCH_ALL with host h only when h answered
\* 2xx to RCPT TO for the candidate and to RCPT TO for the fake address; it
\* returns DELIVERABLE with host h only when h answered 2xx to RCPT TO for the
\* candidate and the negative-control connection to h either got another
\* reply than 2xx to RCPT TO or raised.
C32_VerdictsRestOnReplies ==
  pc = "cb_if" =>
    /\ ret.status = "CATCH_ALL" =>
         \E h \in Named :
           /\ h \in Accepted
           /\ \E c \in ControlReplies : c[1] = h /\ c[4] = "2xx"
           /\ lastFault = NoFault
    /\ ret.status = "DELIVERABLE" =>
         \E h \in Named :
           /\ h \in Accepted
           /\ \/ \E c \in ControlReplies : c[1] = h /\ c[4] # "2xx"
              \/ lastFault.kind = "control" /\ lastFault.exc # "" /\ hi = h

C32_Witness ==
  /\ pc = "cb_if"
  /\ Len(mx_hosts) = 2
  /\ ret = [status |-> "DELIVERABLE", detail |-> mx_hosts[2]]
  /\ conn.kind = "control" /\ conn.refused /\ code_fake = 451
  /\ lastFault = NoFault

\* C33: the status choose_best returns is DELIVERABLE, CATCH_ALL or
\* MX_UNVERIFIABLE, never UNDELIVERABLE, also when every candidate was
\* rejected with a 5xx; the address it returns is one of the candidates when
\* there are any.
C33_ChooseBestNeverUndeliverable ==
  pc = "cb_done" =>
    /\ result.status \in { "DELIVERABLE", "CATCH_ALL", "MX_UNVERIFIABLE" }
    /\ Len(candidates) > 0 => result.email \in Range(candidates)
    /\ Len(candidates) = 0 => result = [email |-> "", status |-> "MX_UNVERIFIABLE"]

C33_Witness ==
  /\ pc = "cb_done"
  /\ Len(candidates) = 3
  /\ outcomes = << "UNDELIVERABLE", "UNDELIVERABLE", "UNDELIVERABLE" >>
  /\ rejected = { 1, 2, 3 }
  /\ result = [email |-> candidates[1], status |-> "MX_UNVERIFIABLE"]

\* =================================================================
\* The rows main leaves alone (specification SpecMain)
\* =================================================================
\* The record has the status SCRAPED (in any case, white space around it
\* aside), nothing but white space as its email, a website that yields a
\* domain, and a name or alias list that yields candidates.
Qualifies(row) ==
  /\ upper(strip(Cell(row, "Status"))) = SCRAPED
  /\ strip(Cell(row, "Email")) = << >>
  /\ normalize_domain(WebsiteOf(row)) # None
  /\ generate_candidates(
       strip(FirstText(row, << "First Name", "FirstName", "firstName" >>)),
       strip(FirstText(row, << "Last Name", "LastName", "lastName" >>)),
       normalize_domain(WebsiteOf(row))) # << >>

\* The records whose sheet row is n.
RecordsAt(n) == { r \in 1..Len(rows) : RowNumber(r - 1) = n }

Today     == "2026-01-02"
Yesterday == "2026-01-01"

\* 'NEW'
StatusNew   == << "N", "E", "W" >>
IN_PROGRESS == << "I", "N", "_", "P", "R", "O", "G", "R", "E", "S", "S" >>
FAILED      == << "F", "A", "I", "L", "E", "D" >>

\* Values of MAX_PROFILES_PER_DAY and MAX_PROFILES_PER_SESSION.
LimitSettings == 0..MaxLimit

\* What usage_state.json may hold when a run starts.
UsageFiles ==
  { NoFile, [date |-> Yesterday, count |-> MaxLimit] }
    \cup { [date |-> Today, count |-> c] : c \in 0..(MaxLimit + 1) }

\* The rows of the sheet: the Status and the LinkedIn URL cells.
ProfilePool ==
  << [status |-> StatusNew,       url |-> << "u" >>],
     [status |-> << >>,     url |-> << " ", "u" >>],
     [status |-> SCRAPED,   url |-> << "u" >>],
     [status |-> << " ", "N", "E", "W", " " >>, url |-> << "u" >>],
     [status |-> StatusNew,       url |-> << " " >>],
     [status |-> << "n", "e", "w" >>, url |-> << "u" >>],
     [status |-> IN_PROGRESS, url |-> << "u" >>] >>

ProfileLists ==
  { SubSeq(ProfilePool, 1, k) : k \in 0..Min(MaxProfiles, Len(ProfilePool)) }

\* Header rows of the sheet of the scraper.
ScraperLayouts ==
  { << "LinkedIn URL", "First Name", "Title", "Website", "Status" >>,
    << "LinkedIn URL", "Title" >>,
    << "Status", "Title" >> }

\* The record sheet.get_all_records() gives for a row of the scraper's sheet.
ProfileRowOf(layout, p) ==
  [h \in { layout[j] : j \in 1..Len(layout) } |->
     CASE h = "LinkedIn URL" -> p.url
       [] h = "Status"       -> p.status
       [] OTHER              -> << >>]

\* lines 134-144: max(1, limit)
AtLeastOne(n) == IF n < 1 THEN 1 ELSE n

\* lines 146-157: _load, the daily count a governor starts with
Load(file, date) ==
  IF file # NoFile /\ file.date = date THEN file.count ELSE 0

\* Mutant: the daily cap not looked at.
can_proceed_SessionOnly == session_count < session_limit

\* lines 166-171
can_proceed ==
  IF session_count >= session_limit THEN FALSE
  ELSE IF daily_count >= daily_limit THEN FALSE
  ELSE TRUE

\* lines 173-176: record_visit, with _save (lines 159-164), which writes the
\* file or gives up silently
record_visit ==
  /\ session_count' = session_count + 1
  /\ daily_count' = daily_count + 1
  /\ \/ usage_state' = [date |-> Today, count |-> daily_count + 1]
     \/ UNCHANGED usage_state

\* lines 179-224: the risk markers of the page the browser shows
detect_risk == page.risk

\* lines 462-467: find_col, 0 for None
RECURSIVE find_col(_, _)
find_col(hdr, names) ==
  IF names = << >> THEN 0
  ELSE IF HeaderIndex(hdr, LowerWord(Head(names))) # 0
         THEN HeaderIndex(hdr, LowerWord(Head(names)))
         ELSE find_col(hdr, Tail(names))

UrlHeaders == << "LinkedIn URL", "LinkedIn", "Profile", "LinkedInProfile", "Profile URL" >>

\* The dictionaries scrape_person returns (lines 370-402).
People ==
  { [first_name |-> "Ann", last_name |-> "Lee", title |-> "CTO",
     company_name |-> "Acme", company_linkedin_url |-> "linkedin.com/company/acme"],
    [first_name |-> "Ann", last_name |-> "", title |-> "Title Not Found",
     company_name |-> "Company Not Found", company_linkedin_url |-> ""],
    [first_name |-> "", last_name |-> "", title |-> "Extraction Failed",
     company_name |-> "Extraction Failed", company_linkedin_url |-> ""] }

\* The dictionaries scrape_company_about returns for a URL (lines 420-443).
Companies ==
  { [website |-> "acme.io", industry |-> "Software", description |-> "Tools"],
    [website |-> "Not Found", industry |-> "Not Found", description |-> "Not Found"],
    [website |-> "Extraction Failed", industry |-> "Extraction Failed",
     description |-> "Extraction Failed"] }

\* line 529
NoCompanyUrl ==
  [website |-> "No Company URL", industry |-> "No Company URL",
   description |-> "No Company URL"]

\* lines 532-551
Values(p, c) ==
  [k \in { "First Name", "FirstName", "firstName", "Last Name", "LastName",
           "lastName", "Title", "Company", "Company Name", "Company URL",
           "Company LinkedIn URL", "Company Linkedin URL", "Company Profile",
           "Website", "Industry", "Company Industry", "Description",
           "Company Description" } |->
     CASE k \in { "First Name", "FirstName", "firstName" } -> p.first_name
       [] k \in { "Last Name", "LastName", "lastName" }    -> p.last_name
       [] k = "Title"                                      -> p.title
       [] k \in { "Company", "Company Name" }              -> p.company_name
       [] k \in { "Company URL", "Company LinkedIn URL", "Company Linkedin URL",
                  "Company Profile" }                      -> p.company_linkedin_url
       [] k = "Website"                                    -> c.website
       [] k \in { "Industry", "Company Industry" }         -> c.industry
       [] OTHER                                            -> c.description]

\* lines 552-553: the values whose header the sheet has
Filtered(hdr, p, c) ==
  LET present == { LowerWord(hdr[j]) : j \in 1..Len(hdr) }
      keys    == { k \in DOMAIN Values(p, c) : LowerWord(k) \in present }
  IN  [k \in keys |-> Values(p, c)[k]]

\* lines 556-558
has_person(p) ==
  p.first_name # "" \/ p.last_name # "" \/ p.title # "" \/ p.company_name # ""

\* lines 559-563
has_company(c) ==
  LET Found(v) == v \notin { "", "Not Found", "No Company URL", "Extraction Failed" }
  IN  Found(c.website) \/ Found(c.industry) \/ Found(c.description)

\* lines 568-569
has_incomplete(hdr, p, c) ==
  \E k \in DOMAIN Filtered(hdr, p, c) :
     Filtered(hdr, p, c)[k] \in { "No Company URL", "Extraction Failed" }

RiskProfile == "RiskDetected: challenge/restriction while viewing profile"
RiskCompany == "RiskDetected: challenge/restriction while viewing company page"

\* Mutant: no message taken as a risk message.
IsRiskMessage_Never(msg) == FALSE

\* line 642: 'RiskDetected' in msg
IsRiskMessage(msg) == msg \in { RiskProfile, RiskCompany }

\* sheet.update_cell(row_number, status_idx, value) inside try/except
\* (lines 510-513, 571-574, 586-589): the cell is written, or the call raises
\* and the exception is dropped
StatusWrite(value) ==
  IF find_col(headers, << "Status" >>) = 0
    THEN UNCHANGED sheet_status
    ELSE \/ sheet_status' = [sheet_status EXCEPT ![i] = value]
         \/ UNCHANGED sheet_status

engineVars == << probeVars, mxVars, SMTP_ENABLED, updates, writes, input, output,
                 workers >>

\* lines 652-656: the finally clause of main; driver.quit() has been called,
\* whether it raised or not
Finally == driver' = "quit" /\ pc' = "sc_end"

\* lines 594-612: configuration, the sheet, the governor and the driver
ScraperStart ==
  /\ pc = "sc_start"
  /\ IF SHEET_NAME = ""
       THEN /\ pc' = "sc_end"
            /\ UNCHANGED << session_limit, daily_limit, daily_count, driver, exc >>
       ELSE /\ daily_limit' = AtLeastOne(MAX_PROFILES_PER_DAY)
            /\ session_limit' = AtLeastOne(MAX_PROFILES_PER_SESSION)
            /\ daily_count' = Load(usage_state, Today)
            /\ \/ driver' = "open" /\ pc' = "sc_login" /\ UNCHANGED exc
               \/ /\ exc' = "WebDriverException"
                  /\ pc' = "sc_end"
                  /\ UNCHANGED driver
  /\ UNCHANGED << engineVars, SHEET_NAME, headers, rows, i, row_number, processed,
                  SCRAPE_COMPANY_ABOUT, MAX_PROFILES_PER_DAY,
                  MAX_PROFILES_PER_SESSION, session_count, usage_state,
                  sheet_status, failed, ok, person, company, page, detected >>

\* lines 615-619: login, and the risk check after it
Login ==
  /\ pc = "sc_login"
  /\ \/ /\ exc' = "Login failed or timed out"
        /\ page' = [row |-> 0, kind |-> "login", risk |-> FALSE]
        /\ Finally
        /\ UNCHANGED detected
     \/ \E r \in BOOLEAN :
          /\ page' = [row |-> 0, kind |-> "login", risk |-> r]
          /\ IF r THEN detected' = TRUE /\ Finally
                  ELSE pc' = "sc_for" /\ UNCHANGED << detected, driver >>
          /\ UNCHANGED exc
  /\ UNCHANGED << engineVars, SHEET_NAME, headers, rows, i, row_number, processed,
                  SCRAPE_COMPANY_ABOUT, MAX_PROFILES_PER_DAY,
                  MAX_PROFILES_PER_SESSION, session_limit, daily_limit,
                  session_count, daily_count, usage_state, sheet_status, failed,
                  ok, person, company >>

\* lines 623-631: the next row, up to the call of process_row
ScraperFor ==
  /\ pc = "sc_for"
  /\ i < Len(rows)
  /\ i' = i + 1
  /\ row_number' = RowNumber(i)
  /\ LET status == strip(Cell(rows[i + 1], "Status"))
     IN  IF status # << >> /\ status # StatusNew
           THEN pc' = "sc_for" /\ UNCHANGED driver
           ELSE IF ~can_proceed
             THEN Finally
             ELSE pc' = "pr_call" /\ UNCHANGED driver
  /\ UNCHANGED << engineVars, SHEET_NAME, headers, rows, processed,
                  SCRAPE_COMPANY_ABOUT, MAX_PROFILES_PER_DAY,
                  MAX_PROFILES_PER_SESSION, session_limit, daily_limit,
                  session_count, daily_count, usage_state, sheet_status, failed,
                  ok, exc, person, company, page, detected >>

\* lines 489-516: process_row up to the profile page
ProcessRowStart ==
  /\ pc = "pr_call"
  /\ \/ /\ exc' = "APIError"
        /\ pc' = "sc_except"
        /\ UNCHANGED << ok, sheet_status, person, page >>
     \/ LET url_idx      == find_col(headers, UrlHeaders)
            linkedin_url == strip(FirstText(rows[i], UrlHeaders))
        IN  IF url_idx = 0 \/ linkedin_url = << >>
              THEN /\ ok' = FALSE
                   /\ pc' = "sc_ret"
                   /\ UNCHANGED << exc, sheet_status, person, page >>
              ELSE /\ StatusWrite(IN_PROGRESS)
                   /\ \E p \in People, r \in BOOLEAN :
                        /\ person' = p
                        /\ page' = [row |-> row_number, kind |-> "profile",
                                    risk |-> r]
                   /\ pc' = "pr_risk"
                   /\ UNCHANGED << ok, exc >>
  /\ UNCHANGED << engineVars, SHEET_NAME, headers, rows, i, row_number, processed,
                  SCRAPE_COMPANY_ABOUT, MAX_PROFILES_PER_DAY,
                  MAX_PROFILES_PER_SESSION, session_limit, daily_limit,
                  session_count, daily_count, usage_state, driver, failed,
                  company, detected >>

\* lines 518-529: the risk check on the profile page, and the company page
ProcessRowCompany ==
  /\ pc = "pr_risk"
  /\ IF detect_risk
       THEN /\ detected' = TRUE
            /\ exc' = RiskProfile
            /\ pc' = "sc_except"
            /\ UNCHANGED << company, page >>
       ELSE /\ IF person.company_linkedin_url # "" /\ SCRAPE_COMPANY_ABOUT
                 THEN /\ \E c \in Companies, r \in BOOLEAN :
                           /\ company' = c
                           /\ page' = [row |-> row_number, kind |-> "company",
                                       risk |-> r]
                      /\ pc' = "pr_risk2"
                 ELSE /\ company' = NoCompanyUrl
                      /\ pc' = "pr_write"
                      /\ UNCHANGED page
            /\ UNCHANGED << detected, exc >>
  /\ UNCHANGED << engineVars, SHEET_NAME, headers, rows, i, row_number, processed,
                  SCRAPE_COMPANY_ABOUT, MAX_PROFILES_PER_DAY,
                  MAX_PROFILES_PER_SESSION, session_limit, daily_limit,
                  session_count, daily_count, usage_state, sheet_status, driver,
                  failed, ok, person >>

\* lines 525-527: the risk check on the company page
ProcessRowCompanyRisk ==
  /\ pc = "pr_risk2"
  /\ IF detect_risk
       THEN detected' = TRUE /\ exc' = RiskCompany /\ pc' = "sc_except"
       ELSE pc' = "pr_write" /\ UNCHANGED << detected, exc >>
  /\ UNCHANGED << engineVars, SHEET_NAME, headers, rows, i, row_number, processed,
                  SCRAPE_COMPANY_ABOUT, MAX_PROFILES_PER_DAY,
                  MAX_PROFILES_PER_SESSION, session_limit, daily_limit,
                  session_count, daily_count, usage_state, sheet_status, driver,
                  failed, ok, person, company, page >>

\* lines 532-591: the values are written and the Status is set; row_values
\* (line 552) and sheet.update (line 482) are outside any try
ProcessRowWrite ==
  /\ pc = "pr_write"
  /\ \/ /\ exc' = "APIError"
        /\ pc' = "sc_except"
        /\ UNCHANGED << ok, sheet_status >>
     \/ /\ IF has_person(person) \/ has_company(company)
             THEN /\ StatusWrite(IF has_incomplete(headers, person, company)
                                   THEN StatusNew ELSE SCRAPED)
                  /\ ok' = TRUE
             ELSE /\ StatusWrite(FAILED)
                  /\ ok' = FALSE
        /\ pc' = "sc_ret"
        /\ UNCHANGED exc
  /\ UNCHANGED << engineVars, SHEET_NAME, headers, rows, i, row_number, processed,
                  SCRAPE_COMPANY_ABOUT, MAX_PROFILES_PER_DAY,
                  MAX_PROFILES_PER_SESSION, session_limit, daily_limit,
                  session_count, daily_count, usage_state, driver, failed,
                  person, company, page, detected >>

\* lines 633-638: process_row has returned; its locals are gone
ScraperRecord ==
  /\ pc = "sc_ret"
  /\ IF ok THEN processed' = processed + 1 /\ UNCHANGED failed
           ELSE failed' = failed + 1 /\ UNCHANGED processed
  /\ record_visit
  /\ ok' = FALSE /\ person' = NoPerson /\ company' = NoCompany
  /\ pc' = "sc_for"
  /\ UNCHANGED << engineVars, SHEET_NAME, headers, rows, i, row_number,
                  SCRAPE_COMPANY_ABOUT, MAX_PROFILES_PER_DAY,
                  MAX_PROFILES_PER_SESSION, session_limit, daily_limit,
                  sheet_status, driver, exc, page, detected >>

\* lines 640-649: process_row has raised; its locals are gone
ScraperExcept ==
  /\ pc = "sc_except"
  /\ IF IsRiskMessage(exc)
       THEN Finally /\ UNCHANGED << failed, exc >>
       ELSE /\ failed' = failed + 1
            /\ exc' = ""
            /\ pc' = "sc_for"
            /\ UNCHANGED driver
  /\ person' = NoPerson /\ company' = NoCompany
  /\ UNCHANGED << engineVars, SHEET_NAME, headers, rows, i, row_number, processed,
                  SCRAPE_COMPANY_ABOUT, MAX_PROFILES_PER_DAY,
                  MAX_PROFILES_PER_SESSION, session_limit, daily_limit,
                  session_count, daily_count, usage_state, sheet_status, ok,
                  page, detected >>

\* lines 651-656: the rows are exhausted
ScraperDone ==
  /\ pc = "sc_for"
  /\ i >= Len(rows)
  /\ Finally
  /\ UNCHANGED << engineVars, SHEET_NAME, headers, rows, i, row_number, processed,
                  SCRAPE_COMPANY_ABOUT, MAX_PROFILES_PER_DAY,
                  MAX_PROFILES_PER_SESSION, session_limit, daily_limit,
                  session_count, daily_count, usage_state, sheet_status, failed,
                  ok, exc, person, company, page, detected >>

InitScraper ==
  /\ pc = "sc_start"
  /\ \/ /\ SHEET_NAME = "Leads"
        /\ SCRAPE_COMPANY_ABOUT \in BOOLEAN
        /\ MAX_PROFILES_PER_DAY \in LimitSettings
        /\ MAX_PROFILES_PER_SESSION \in LimitSettings
        /\ usage_state \in UsageFiles
        /\ headers \in ScraperLayouts
        /\ \E ps \in ProfileLists :
             rows = [r \in 1..Len(ps) |-> ProfileRowOf(headers, ps[r])]
     \/ /\ SHEET_NAME = ""
        /\ SCRAPE_COMPANY_ABOUT = TRUE
        /\ MAX_PROFILES_PER_DAY = 1 /\ MAX_PROFILES_PER_SESSION = 1
        /\ usage_state = NoFile
        /\ headers = << >> /\ rows = << >>
  /\ sheet_status = [r \in 1..Len(rows) |-> Cell(rows[r], "Status")]
  /\ session_limit = 1 /\ daily_limit = 1
  /\ session_count = 0 /\ daily_count = 0
  /\ driver = "none"
  /\ failed = 0 /\ ok = FALSE /\ exc = ""
  /\ person = NoPerson /\ company = NoCompany
  /\ page = NoPage
  /\ detected = FALSE
  /\ SMTP_ENABLED = TRUE
  /\ i = 0 /\ row_number = 0 /\ processed = 0
  /\ updates = << >> /\ writes = << >>
  /\ input = << >> /\ output = << >> /\ workers = NoWorkers
  /\ candidates = << >> /\ mx_hosts = << >>
  /\ InitProbe
  /\ InitMx

NextScraper ==
  \/ ScraperStart
  \/ Login
  \/ ScraperFor
  \/ ProcessRowStart
  \/ ProcessRowCompany
  \/ ProcessRowCompanyRisk
  \/ ProcessRowWrite
  \/ ScraperRecord
  \/ ScraperExcept
  \/ ScraperDone

SpecScraper == InitScraper /\ [][NextScraper]_vars

\* =================================================================
\* Properties of lead_scraper_v2 (specification SpecScraper)
\* =================================================================
\* process_row has been called and main has not yet counted or handled it
InProcessRow == pc \in { "pr_call", "pr_risk", "pr_risk2", "pr_write", "sc_ret", "sc_except" }

\* the governor exists
Governed == pc # "sc_start"

\* C35: the limits of the governor are the configured limits, 1 for a
\* configured limit below 1; process_row is called only with
\* session_count < session_limit and daily_count < daily_limit; session_count
\* never exceeds session_limit; and whenever usage_state.json is written, it
\* is written for the date of the run with a count of at most daily_limit.
C35_GovernorEnforcesCaps ==
  /\ []((Governed /\ SHEET_NAME # "") =>
          /\ session_limit = (IF MAX_PROFILES_PER_SESSION < 1 THEN 1
                              ELSE MAX_PROFILES_PER_SESSION)
          /\ daily_limit = (IF MAX_PROFILES_PER_DAY < 1 THEN 1
                            ELSE MAX_PROFILES_PER_DAY)
          /\ session_count <= session_limit
          /\ (InProcessRow /\ pc # "sc_except" /\ pc # "sc_ret") =>
                session_count < session_limit /\ daily_count < daily_limit)
  /\ [][/\ (pc # "pr_call" /\ pc' = "pr_call") =>
             session_count < session_limit /\ daily_count < daily_limit
        /\ usage_state' # usage_state =>
             /\ usage_state'.date = Today
             /\ usage_state'.count <= daily_limit
             /\ usage_state'.count = daily_count']_vars

C35_Witness ==
  /\ pc = "sc_end"
  /\ MAX_PROFILES_PER_SESSION = 0
  /\ session_count = 1
  /\ MAX_PROFILES_PER_DAY = 2
  /\ usage_state = [date |-> Today, count |-> 2]
  /\ i = 2 /\ Len(rows) = 5
  /\ exc = "" /\ ~detected

\* The rows process_row has been called for in this run.
Attempted ==
  processed + failed + (IF InProcessRow THEN 1 ELSE 0)
    + (IF pc = "sc_end" /\ IsRiskMessage(exc) THEN 1 ELSE 0)

\* C36: when a call of process_row ends, by returning or by raising,
\* session_count and daily_count are one more than before and the daily count
\* is written to usage_state.json (unless the write itself fails); the rows
\* attempted in a run are never more than session_limit.
C36_EveryAttemptCounted ==
  /\ [][(pc \in { "sc_ret", "sc_except" } /\ pc' \in { "sc_for", "sc_end" }) =>
          /\ session_count' = session_count + 1
          /\ daily_count' = daily_count + 1
          /\ usage_state' \in { usage_state,
                                [date |-> Today, count |-> daily_count'] }]_vars
  /\ [](Governed => Attempted <= session_limit)

\* C37: once detect_risk has returned True, the browser loads no other page,
\* process_row is not called again, the next step of main ends the run, and
\* the run ends with driver.quit() called; a run that opened the browser
\* never ends without that call.
C37_RiskStopsTheRun ==
  /\ [][detected =>
          /\ page' = page
          /\ pc' # "pr_call"
          /\ pc' = "sc_end" /\ driver' = "quit"]_vars
  /\ [](detected => pc \in { "sc_except", "sc_end" })
  /\ []((pc = "sc_end" /\ (detected \/ page # NoPage)) => driver = "quit")

C37_Witness ==
  /\ pc = "sc_end"
  /\ detected
  /\ driver = "quit"
  /\ exc = RiskCompany
  /\ page = [row |-> 2, kind |-> "company", risk |-> TRUE]
  /\ i = 1 /\ Len(rows) = 5
  /\ session_count = 0 /\ session_limit = 2

\* C38: at the end of a run no row has the Status IN_PROGRESS unless it had
\* it when the run started, and a row whose Status the run changed has the
\* Status SCRAPED, NEW or FAILED.
C38_NoRowLeftInProgress ==
  pc = "sc_end" =>
    \A r \in 1..Len(rows) :
       /\ sheet_status[r] = IN_PROGRESS => Cell(rows[r], "Status") = IN_PROGRESS
       /\ sheet_status[r] # Cell(rows[r], "Status") =>
             sheet_status[r] \in { SCRAPED, StatusNew, FAILED }

====
